---- MODULE Spec2Model ----
(***************************************************************************)
(* Model of tfhfs: the block store of storage.py (DelayedStorage over a    *)
(* by-value backend such as SQLiteStorageBackend) and the file content     *)
(* model of forest_file.py.                                                *)
(*                                                                         *)
(* A Python handler runs to completion, so each handler is one action.     *)
(* The handlers are written as operators that thread a store record `s`    *)
(* (the fields of the DelayedStorage object and of its backend) through    *)
(* the calls the handler makes; an exception sets s.err and the rest of    *)
(* the handler is skipped, exactly as the raise unwinds the Python stack.  *)
(***************************************************************************)
EXTENDS Integers, Sequences, FiniteSets, TLC

\* ------------------------------------------------------------------ bounds
\* Callers take references only while the refcount stays at most MaxRefcnt.
MaxRefcnt == 3
MaxHeld == 1
\* The size accounting of the cache drifts; calls are followed while
\* cache_size is at most MaxCacheSize.
MaxCacheSize == 4

\* ------------------------------------------------------- the modelled world
\* Block ids.  Blocks are content addressed, so the id fixes the data and
\* with it the ids the data references (block_data_references_callback).
Ids == {"a", "b"}

\* a references b: a tree node above a data block.
DataRefs(id) == IF id = "a" THEN <<"b">> ELSE <<>>

Names == {"content"}

NoId == "None"          \* Python None where a block id is expected
NoneRc == -1            \* Python None where a refcount is expected

\* getrecsizeof(block.data): every block data has the same size here.
DataSize == 1

\* ------------------------------------------------------------ StoredBlock
\* stored: the copy mark_dirty_related keeps of the last persisted state;
\* stored.has = FALSE is `stored is None`.
NoStored == [has |-> FALSE, refcnt |-> NoneRc, data |-> FALSE]

\* No live StoredBlock object for an id.
NoBlock == [live |-> FALSE, refcnt |-> NoneRc, data |-> FALSE, dirty |-> FALSE,
            stored |-> NoStored, cache_size |-> 0]

\* StoredBlock(self, block_id): refcnt, data and type are all None.
FreshBlock == [live |-> TRUE, refcnt |-> NoneRc, data |-> FALSE, dirty |-> FALSE,
               stored |-> NoStored, cache_size |-> 0]

\* Python truthiness of a refcount: None and 0 are false.
Falsy(rc) == rc = NoneRc \/ rc = 0

\* A row of the backend's blocks table.
NoRow == [present |-> FALSE, refcnt |-> 0]

VARIABLES
    cache,      \* id -> the StoredBlock object reachable through the store
    cached,     \* the keys of _cache_bid2block
    dirty,      \* _dirty_bid2block: ids in insertion order
    rr0,        \* referenced_refcnt0_block_ids
    names,      \* _names: name -> <<current, orig>>
    cache_size, \* DelayedStorage.cache_size
    lru,        \* cached ids ordered by StoredBlock.t, oldest first
    maximum_cache_size,
    bid2block,  \* the backend's blocks
    name2bid,   \* the backend's names
    extref,     \* the ids the registered extref callbacks claim right now
    held,       \* references the callers of the store hold on each id
    last,       \* the last call: the operation and the count flush returned
    belog,      \* the backend after each backend operation of the last call
    dels,       \* the backend deletions of the last call
    err         \* "ok", or the exception the last call raised

svars == <<cache, cached, dirty, rr0, names, cache_size, lru, maximum_cache_size,
           bid2block, name2bid, extref, held, last, belog, dels, err>>

\* -------------------------------------------------- the file of forest_file.py
\* const.py, scaled down: the three regimes of a file are inline data of at
\* most INTERNED_BLOCK_DATA_SIZE_LIMIT bytes, one FileData block of at most
\* BLOCK_SIZE_LIMIT bytes, and a tree of blocks of BLOCK_SIZE_LIMIT bytes.
INTERNED_BLOCK_DATA_SIZE_LIMIT == 1
BLOCK_SIZE_LIMIT == 2

\* Files grow up to MaxSize bytes; one write carries at most MaxBuf bytes.
MaxSize == 4
MaxBuf == 3

\* The byte a write carries; 0 is the zero byte.
ByteVals == {1}

\* The keys of the block tree: struct.pack('>Q', block index).
Keys == 0..(MaxSize \div BLOCK_SIZE_LIMIT)

NoData == <<-1>>        \* Python None where bytes are expected
NoMin == -1             \* minimum_size=None

\* self._write_blocks.get(k) is None
NoEntry == [node |-> "absent", data |-> NoData]

\* No directory entry of the file in the persisted directory.
NoFile == [present |-> FALSE, block_data |-> NoData, minifile |-> FALSE,
           st_size |-> 0, node |-> "None", content |-> NoData,
           leaves |-> [k \in Keys |-> NoData]]

VARIABLES
    block_data,     \* leaf_node.block_data
    minifile,       \* leaf_node.data['minifile']
    st_size,        \* leaf_node.data['st_size']
    node,           \* FileINode.node: "None", "data" (FileData) or "tree"
    content,        \* node.content of a FileData node
    leaves,         \* key -> content of the FileBlockEntry of a tree node
    write_blocks,   \* FileINode._write_blocks: key -> [node, data]
    file_dirty,     \* FileINode.dirty
    node_dirty,     \* node.dirty of a tree node
    dirty_node_set, \* the file's tree nodes in Forest.dirty_node_set
    disk,           \* the directory entry and the blocks the backend holds
    ref,            \* the reference byte array with the same history
    flast           \* the last file operation and what it returned

fvars == <<block_data, minifile, st_size, node, content, leaves, write_blocks,
           file_dirty, node_dirty, dirty_node_set, disk, ref, flast>>

\* The file as the directory and its descriptors see it.
VARIABLES
    leaf_node,      \* FileINode.leaf_node: "entry", or "None" once unlinked
    fds,            \* Forest.fds: descriptor -> "closed", "rw" or "append"
    root_dir        \* the names of the leaves of the root directory's tree

uvars == <<leaf_node, fds, root_dir>>

Fds == {1, 2}

\* The file of FileInit under its name, no descriptor open.
UnlinkInit ==
    /\ leaf_node = "entry"
    /\ fds = [d \in Fds |-> "closed"]
    /\ root_dir = {"file_one"}

\* A b-tree of btree.py, with the ghost set of the names added to it.
VARIABLES
    root,           \* the root TreeNode and all that hangs under it
    present,        \* the keys added and not removed since
    blast           \* the last tree operation and whether it returned

bvars == <<root, present, blast>>

\* TreeNode.maximum_size, in leaves: every child has size 1 here.
maximum_size == 8

MaxKey == 9

BKeys == 1..MaxKey

\* TreeNode.key of a node that never got one.
NoKey == 0

\* TreeNode.__init__
TreeNode == [leaf |-> FALSE, key |-> NoKey, child_keys |-> <<>>, children |-> <<>>]

\* LeafNode.__init__; LeafNode.key orders the leaves as k does
LeafNode(k) == [leaf |-> TRUE, key |-> k, child_keys |-> <<>>, children |-> <<>>]

BtreeInit ==
    /\ root = TreeNode
    /\ present = {}
    /\ blast = [op |-> "init", key |-> NoKey, ok |-> TRUE]

\* A forest of nested directories over a block store that keeps every
\* block.  An entry, an inode and a tree node are found by the path of
\* names that leads to them; the root directory is the empty path.
VARIABLES
    entry,      \* path -> the DirectoryEntry leaf in its parent's loaded tree
    ino,        \* path -> the INode of the entry: refcnt, leaf_node
    tnode,      \* path -> INode.node of a directory: loaded, dirty, block_id
    dns,        \* Forest.dirty_node_set, as paths
    blocks,     \* the block ids the storage holds; an id is the data it names
    cname,      \* what the storage gives for the block name `content`
    user_refs,  \* path -> references the caller holds on the inode
    want,       \* path -> the entry a reader of the forest expects
    dlast       \* the last forest operation and what it returned

dvars == <<entry, ino, tnode, dns, blocks, cname, user_refs, want, dlast>>

DNames == {"a", "b"}

MaxDepth == 2

\* the values of leaf.set_data('foo', v); 0 is a key never set
MaxFoo == 1

\* the path of n names "a"
RECURSIVE Chain(_)
Chain(n) == IF n = 0 THEN <<>> ELSE Append(Chain(n - 1), "a")

\* the paths of the entries: the root directory holds the names of DNames,
\* the directories under it the name "a"
DPaths == {<<x>> : x \in DNames} \cup {Chain(n) : n \in 1..MaxDepth}

DDirs == {<<>>} \cup DPaths

\* block_id = None
NoBid == [none |-> TRUE, entries |-> {}]

\* no DirectoryEntry in memory
NoLeaf == [there |-> FALSE, is_dir |-> FALSE, foo |-> 0, dirty |-> FALSE,
           block_id |-> NoBid]

\* no INode; leaf_node is "linked" (a leaf of its parent's tree), "orphan"
\* (a leaf taken out of the tree) or "None"
NoINode == [there |-> FALSE, refcnt |-> 0, leaf_node |-> "None", leaf_dirty |-> FALSE]

\* node = None
NoTreeNode == [there |-> FALSE, loaded |-> FALSE, dirty |-> FALSE, block_id |-> NoBid]

NoWant == [there |-> FALSE, is_dir |-> FALSE, foo |-> 0]

\* Forest.__init__ over an empty storage
DirInit ==
    /\ entry = [p \in DPaths |-> NoLeaf]
    /\ ino = [p \in DDirs |->
                 IF p = <<>> THEN [NoINode EXCEPT !.there = TRUE, !.refcnt = 1]
                 ELSE NoINode]
    /\ tnode = [p \in DDirs |->
                   IF p = <<>> THEN [NoTreeNode EXCEPT !.there = TRUE] ELSE NoTreeNode]
    /\ dns = {}
    /\ blocks = {}
    /\ cname = NoBid
    /\ user_refs = [p \in DPaths |-> 0]
    /\ want = [p \in DPaths |-> NoWant]
    /\ dlast = [op |-> "init", ok |-> TRUE, rv |-> FALSE, calls |-> 0, cnt |-> 0]

\* ---------------------------------------------------------------------
\* Forest.merge3 and Forest.merge_remote: three forests over one storage,
\* each a root directory with its entries.

VARIABLES
    mstore,     \* block name -> the root directory stored under it
    mlocal,     \* the local Forest in memory
    new_f,      \* the Forest of the remote name that the last merge worked on
    old_f,      \* the Forest of the ancestor name that the last merge worked on
    mbefore,    \* mlocal, new_f, old_f and mstore as the last merge found them
    mlast       \* the last operation and what it returned

mvars == <<mstore, mlocal, new_f, old_f, mbefore, mlast>>

\* the names of a root directory in the order of their keys; "" is the
\* entry INode.direntry keeps for the root itself
MNameSeq == <<"a", "">>

MNames == {MNameSeq[i] : i \in 1..Len(MNameSeq)}

\* the time stamps entries are made with; 0 is an entry without st_mtime_ns
MaxTime == 2

MBlockNames == {"content", "remote", "remote_old"}

NoDirEntry == [there |-> FALSE, is_dir |-> FALSE, mtime |-> 0, stored |-> FALSE]

DirEntry(is_dir, t) == [there |-> TRUE, is_dir |-> is_dir, mtime |-> t, stored |-> FALSE]

EmptyDir == [n \in MNames |-> NoDirEntry]

\* get_block_id_by_name gives None
NoName == [named |-> FALSE, tree |-> EmptyDir]

\* Forest(storage, content_name=name), its root tree node read
OpenForest(store, name) ==
    [there |-> TRUE, node |-> TRUE, tree |-> store[name].tree, dirty |-> FALSE,
     dns |-> FALSE, inodes |-> {}]

NoForest ==
    [there |-> FALSE, node |-> FALSE, tree |-> EmptyDir, dirty |-> FALSE,
     dns |-> FALSE, inodes |-> {}]

MergeInit ==
    /\ mstore = [n \in MBlockNames |-> NoName]
    /\ mlocal = OpenForest([n \in MBlockNames |-> NoName], "content")
    /\ new_f = NoForest
    /\ old_f = NoForest
    /\ mbefore = [local |-> NoForest, new_f |-> NoForest, old_f |-> NoForest,
                  mstore |-> [n \in MBlockNames |-> NoName]]
    /\ mlast = [op |-> "init", ok |-> TRUE, delta |-> 0]

\* ---------------------------------------------------------------------
\* Operations, the filesystem facade, over a forest that is not flushed in
\* between: every entry has its inode, and an inode is known by its number.
VARIABLES
    onode,      \* inode number -> the INode and its DirectoryEntry
    olast       \* the last facade call: its error, the inodes it stamped

ovars == <<onode, olast>>

MaxInodes == 3

\* the references and file descriptors the model lets an inode reach
MaxOpsRefcnt == 4

ONames == {"a", "b"}

\* ctx.uid: root and one user
OUids == {0, 42}

OIno == 1..MaxInodes

\* llfuse.ROOT_INODE
ORoot == 1

\* no INode.  parent and name are the leaf_node (parent 0: leaf_node None),
\* in_tree says that the leaf is in the tree of the parent, shared is a
\* directory of mode 0o1777 (anybody may write, sticky), held and fds count
\* the references the caller got and the open file descriptors
NoONode == [there |-> FALSE, is_dir |-> FALSE, refcnt |-> 0, parent |-> 0, name |-> "",
            in_tree |-> FALSE, uid |-> 0, shared |-> FALSE, held |-> 0, fds |-> 0]

OpsInit ==
    /\ onode = [i \in OIno |->
                   IF i = ORoot THEN [NoONode EXCEPT !.there = TRUE, !.is_dir = TRUE,
                                                     !.refcnt = 1]
                   ELSE NoONode]
    /\ olast = [op |-> "init", err |-> "ok", stamped |-> {}]

\* ---------------------------------------------------------------------
\* The block codecs and the picklers are pure functions: their input and
\* what they made of it are kept in one record each.
VARIABLES
    cblock,     \* CompressingTypedBlockCodec: the block, its stored and decoded form
    pnode       \* CBORPickler: the object, its serialized form and the loaded object

pvars == <<cblock, pnode>>

NoCodecBlock == [stage |-> "none"]

NoPickled == [stage |-> "none"]

\* no block and no object are at hand
PureInit ==
    /\ cblock = NoCodecBlock
    /\ pnode = NoPickled

\* ---------------------------------------------------------------------
\* FileINode.perform_flush with its worker threads over a Storage: the
\* workers run _store_entry for one pending block each, and a thread may be
\* switched between any two accesses to the block store.
VARIABLES
    tstore,     \* block id -> refcnt of the block the storage holds, or NoRefcnt
    workers,    \* worker -> where it is in _store_entry, its block id, the refcnt it read
    tflush      \* perform_flush: not called, running, returned or raised

tvars == <<tstore, workers, tflush>>

MaxPending == 3

NoRefcnt == -1

\* the ids of the blocks: the id is the hash of the content
TIds == {1, 2}

TWorkers == 1..MaxPending

IdleWorker == [pc |-> "idle", bid |-> 1, rc |-> 0]

ThreadInit ==
    /\ tstore = [id \in TIds |-> NoRefcnt]
    /\ workers = [w \in TWorkers |-> IdleWorker]
    /\ tflush = [phase |-> "idle", pending |-> <<>>, before |-> [id \in TIds |-> NoRefcnt]]

\* ---------------------------------------------------------------------
\* util.Allocator as the forest's INodeAllocator uses it: values for
\* objects, taken from the free list or counted up from start_value.
VARIABLES
    value2object,   \* value -> the object registered under it, or NoObject
    free_values,    \* the values of unregistered objects, oldest first
    handed_out,     \* every value _allocate has returned so far
    alast           \* the last call: operation, object, value, whether it returned

avars == <<value2object, free_values, handed_out, alast>>

\* llfuse.ROOT_INODE, the start_value of Forest.inodes
ROOT_INODE == 1

\* the objects registered besides the root inode
MaxObjects == 4

RootObject == 0

AObjects == 1..MaxObjects

NoObject == -1

AValues == ROOT_INODE..(ROOT_INODE + MaxObjects + 1)

\* Allocator.__init__
NewAllocator ==
    [v2o |-> [v \in AValues |-> NoObject], free |-> <<>>, v |-> 0, err |-> "ok"]

\* len(self.value2object)
count(a) == Cardinality({v \in AValues : a.v2o[v] # NoObject})

\* an _allocate that counts on without looking at the free list
_allocate_counting(a) ==
    IF (count(a) + ROOT_INODE) \in AValues /\ a.v2o[count(a) + ROOT_INODE] # NoObject
    THEN [a EXCEPT !.err = "AssertionError"]
    ELSE [a EXCEPT !.v = count(a) + ROOT_INODE]

\* Allocator._allocate
_allocate(a) ==
    IF a.free # <<>>
    THEN IF a.v2o[Head(a.free)] # NoObject
         THEN [a EXCEPT !.free = Tail(@), !.err = "AssertionError"]
         ELSE [a EXCEPT !.free = Tail(@), !.v = Head(a.free)]
    ELSE IF a.v2o[count(a) + ROOT_INODE] # NoObject
         THEN [a EXCEPT !.err = "AssertionError"]
         ELSE [a EXCEPT !.v = count(a) + ROOT_INODE]

\* Allocator.register(o)
register(a, o) ==
    IF _allocate(a).err # "ok" THEN _allocate(a)
    ELSE IF \E v \in AValues : a.v2o[v] = o
         THEN [_allocate(a) EXCEPT !.err = "AssertionError"]
    ELSE [_allocate(a) EXCEPT !.v2o[_allocate(a).v] = o]

\* self.object2value[o]
get_value_by_object(a, o) == CHOOSE v \in AValues : a.v2o[v] = o

\* Allocator.unregister(o)
unregister(a, o) ==
    [a EXCEPT !.v2o[get_value_by_object(a, o)] = NoObject,
              !.free = Append(@, get_value_by_object(a, o)),
              !.v = get_value_by_object(a, o)]

\* Forest.__init__: the allocator is made and the root inode registered
AllocInit ==
    /\ value2object = register(NewAllocator, RootObject).v2o
    /\ free_values = register(NewAllocator, RootObject).free
    /\ handed_out = {register(NewAllocator, RootObject).v}
    /\ alast = [op |-> "init", o |-> RootObject, v |-> register(NewAllocator, RootObject).v,
                ok |-> TRUE]

\* the reference counts of the forest's DelayedStorage (refcnt of the blocks
\* that have one, the blocks never written to the backend, _dirty_bid2block,
\* referenced_refcnt0_block_ids), and whether an entry has been removed
VARIABLES
    bstore,
    removed

rvars == <<bstore, removed>>

\* a storage that is not followed block by block
NoStore == [on |-> FALSE, refcnt |-> [b \in {} |-> 0], fresh |-> {}, dirty |-> {},
            zero |-> {}]

\* DelayedStorage.__init__ over an empty backend
ReclaimInit ==
    /\ bstore = [NoStore EXCEPT !.on = TRUE]
    /\ removed = FALSE

nvars == <<ovars, pvars, tvars, avars, rvars>>

yvars == <<bvars, dvars, mvars, nvars>>
xvars == <<uvars, yvars>>
XInit ==
    UnlinkInit /\ BtreeInit /\ DirInit /\ MergeInit /\ OpsInit /\ ThreadInit /\ AllocInit
    /\ ReclaimInit

vars == <<svars, fvars, xvars>>

\* The fields of a file just made by Forest.create_file.
FileStart ==
    /\ block_data = NoData
    /\ minifile = FALSE
    /\ st_size = 0
    /\ node = "None"
    /\ content = NoData
    /\ leaves = [k \in Keys |-> NoData]
    /\ write_blocks = [k \in Keys |-> NoEntry]
    /\ file_dirty = FALSE
    /\ node_dirty = FALSE
    /\ dirty_node_set = {}
    /\ disk = NoFile
    /\ ref = <<>>
    /\ flast = [op |-> "init", ok |-> TRUE, ofs |-> 0, size |-> 0, data |-> <<>>]

\* A file just made by Forest.create_file, in a forest never flushed.
FileInit == FileStart /\ XInit /\ PureInit


\* The store record an operation threads through its calls.
Store == [c |-> cache, ca |-> cached, d |-> dirty, rr |-> rr0, nm |-> names,
          csz |-> cache_size, lru |-> lru, be |-> bid2block, bn |-> name2bid,
          ops |-> 0, ret |-> FALSE, deleted |-> FALSE, cur |-> NoBlock,
          log |-> <<>>, dels |-> {}, err |-> "ok"]

Ok(s) == s.err = "ok"
Raise(s, e) == IF Ok(s) THEN [s EXCEPT !.err = e] ELSE s

\* block_id_has_references_callback: any registered callback claims the id.
block_id_has_references_callback(id) == id \in extref

\* ----------------------------------------------------------- sequences
SeqWithout(q, x) == SelectSeq(q, LAMBDA y: y # x)
InSeq(q, x) == \E i \in 1..Len(q): q[i] = x

\* ------------------------------------------------------------- backend
\* One backend operation: the new backend is appended to the log.
Logged(s) == [s EXCEPT !.log = Append(@, [be |-> s.be, bn |-> s.bn])]

\* SQLiteStorageBackend.store_block: the row must not exist yet.
be_store_block(s, id, blk) ==
    IF ~Ok(s) THEN s
    ELSE IF s.be[id].present THEN Raise(s, "AssertionError: store_block of a stored block")
    ELSE Logged([s EXCEPT !.be[id] = [present |-> TRUE, refcnt |-> blk.refcnt]])

\* SQLiteStorageBackend.flush_block: UPDATE of the fields that differ from
\* block.stored; no row is changed when the id is not in the table.
be_flush_block(s, id, blk) ==
    IF ~Ok(s) THEN s
    ELSE IF blk.stored.has /\ blk.refcnt = blk.stored.refcnt THEN s
    ELSE IF ~s.be[id].present THEN Logged(s)
    ELSE Logged([s EXCEPT !.be[id].refcnt = blk.refcnt])

\* SQLiteStorageBackend.delete_block: DELETE ... WHERE id=?
be_delete_block(s, id) ==
    IF ~Ok(s) THEN s
    ELSE Logged([s EXCEPT !.be[id] = NoRow,
                          !.dels = @ \cup {[id |-> id, present |-> s.be[id].present,
                                            refcnt |-> s.c[id].refcnt,
                                            claimed |-> block_id_has_references_callback(id)]}])

\* ------------------------------------------------------ cache and blocks
\* r.t = time.time(): the use times are read by _shrink_cache only, which
\* never runs while maximum_cache_size is 0.
touch(s, id) ==
    IF maximum_cache_size = 0 THEN s
    ELSE [s EXCEPT !.lru = Append(SeqWithout(@, id), id)]

\* DelayedStorage._goc_block_by_id: the cached object, else the dirty one,
\* else a copy of the backend's row, else a fresh object; it is cached and
\* its use time is refreshed.
goc_block_by_id(s, id) ==
    IF ~Ok(s) THEN s
    ELSE touch(IF id \in s.ca THEN s
               ELSE IF s.c[id].live
                    THEN [s EXCEPT !.ca = @ \cup {id}, !.csz = @ + DataSize]
               ELSE IF s.be[id].present
                    THEN [s EXCEPT !.ca = @ \cup {id}, !.csz = @ + DataSize,
                                   !.c[id] = [FreshBlock EXCEPT
                                               !.refcnt = s.be[id].refcnt,
                                               !.data = TRUE]]
               ELSE [s EXCEPT !.ca = @ \cup {id}, !.c[id] = FreshBlock], id)

\* DelayedStorage.get_block_by_id returns None (FALSE here) for a block with
\* no refcount that no callback claims, unless cleanup is set.
Visible(s, id, cleanup) ==
    ~(Falsy(s.c[id].refcnt) /\ ~block_id_has_references_callback(id) /\ ~cleanup)

\* DirtyMixin.mark_dirty with StoredBlock.mark_dirty_related and
\* Storage.mark_block_dirty.
mark_dirty(s, id) ==
    IF ~Ok(s) THEN s
    ELSE IF s.c[id].dirty THEN s
    ELSE IF s.c[id].stored.has
         THEN Raise([s EXCEPT !.c[id].dirty = TRUE],
                    "AssertionError: mark_dirty_related with stored")
    ELSE [s EXCEPT !.c[id].dirty = TRUE,
                   !.c[id].stored = [has |-> TRUE, refcnt |-> s.c[id].refcnt,
                                     data |-> s.c[id].data],
                   !.d = IF InSeq(@, id) THEN @ ELSE Append(@, id)]

\* self.refcnt = refcnt
with_refcnt(s, id, rc) ==
    IF ~Ok(s) THEN s ELSE [s EXCEPT !.c[id].refcnt = rc]

\* StoredBlock.set_refcnt
set_refcnt(s, id, rc) == with_refcnt(mark_dirty(s, id), id, rc)

\* Storage.refer_block once get_block_by_id has looked the block up.
refer_found(s, id) ==
    IF ~Ok(s) THEN s
    ELSE IF ~Visible(s, id, FALSE) THEN Raise(s, "AssertionError: block id awol")
    ELSE IF s.c[id].refcnt = NoneRc THEN Raise(s, "TypeError: None + 1")
    ELSE set_refcnt(s, id, s.c[id].refcnt + 1)

\* Storage.refer_block
refer_block(s, id) == refer_found(goc_block_by_id(s, id), id)

\* Storage.release_block once get_block_by_id has looked the block up.
release_found(s, id) ==
    IF ~Ok(s) THEN s
    ELSE IF ~Visible(s, id, FALSE) THEN Raise(s, "AssertionError: release of no block")
    ELSE IF s.c[id].refcnt = NoneRc THEN Raise(s, "TypeError: None - 1")
    ELSE IF s.c[id].refcnt - 1 < 0 THEN Raise(s, "AssertionError: refcnt >= 0")
    ELSE set_refcnt(s, id, s.c[id].refcnt - 1)

\* Storage.release_block
release_block(s, id) == release_found(goc_block_by_id(s, id), id)

RECURSIVE refer_all(_, _), release_all(_, _)
refer_all(s, bids) ==
    IF bids = <<>> THEN s ELSE refer_all(refer_block(s, Head(bids)), Tail(bids))
release_all(s, bids) ==
    IF bids = <<>> THEN s ELSE release_all(release_block(s, Head(bids)), Tail(bids))

\* Storage.update_block_data_dependencies(block.data, is_add, block.type) for
\* the data of block id; a block without data has type None, and comparing
\* None with BLOCK_TYPE_WANT_NORMAL raises.
update_block_data_dependencies(s, id, hasdata, is_add) ==
    IF ~Ok(s) THEN s
    ELSE IF ~hasdata THEN Raise(s, "TypeError: None >= BLOCK_TYPE_WANT_NORMAL")
    ELSE IF is_add THEN refer_all(s, DataRefs(id))
    ELSE release_all(s, DataRefs(id))

\* The end of _delete_cached_block: a block that never hit the backend
\* (stored.refcnt is None) has its references released.
release_unstored(s, id, blk) ==
    IF blk.stored.has /\ blk.stored.refcnt = NoneRc
    THEN update_block_data_dependencies(s, id, blk.data, FALSE)
    ELSE s

\* DelayedStorage._delete_cached_block: the object leaves the cache; it stays
\* reachable only while _dirty_bid2block still holds it.
delete_cached_block(s, id) ==
    IF ~Ok(s) THEN s
    ELSE IF id \notin s.ca THEN Raise(s, "KeyError: _cache_bid2block.pop")
    ELSE release_unstored([s EXCEPT !.ca = @ \ {id},
                                    !.lru = SeqWithout(@, id),
                                    !.csz = @ - s.c[id].cache_size,
                                    !.c[id] = IF InSeq(s.d, id) THEN @ ELSE NoBlock],
                          id, s.c[id])

\* self.update_block_data_dependencies(block.data, False, block.type)
release_deps(s, id) ==
    IF ~Ok(s) THEN s
    ELSE update_block_data_dependencies(s, id, s.c[id].data, FALSE)

\* return v
returning(s, v) == IF Ok(s) THEN [s EXCEPT !.ret = v] ELSE s

\* Storage.delete_block_id_with_deps, with DelayedStorage.delete_block_be.
delete_block_id_with_deps(s, id) ==
    returning(delete_cached_block(be_delete_block(release_deps(goc_block_by_id(s, id), id),
                                                  id), id), TRUE)

\* delete_block_id_if_no_extref without the question to the callbacks.
delete_block_id_unasked(s, id) ==
    IF ~Ok(s) THEN s
    ELSE delete_block_id_with_deps([s EXCEPT !.rr = @ \ {id}, !.ret = FALSE], id)

\* Storage.delete_block_id_if_no_extref; s.ret is the value it returns.
delete_block_id_if_no_extref(s, id) ==
    IF ~Ok(s) THEN s
    ELSE IF block_id_has_references_callback(id)
         THEN [s EXCEPT !.rr = @ \cup {id}, !.ret = FALSE]
    ELSE delete_block_id_with_deps([s EXCEPT !.rr = @ \ {id}, !.ret = FALSE], id)

\* The end of perform_flush: one operation, del self.stored; the flushed
\* object is left in s.cur.
flushed(s, b) ==
    IF Ok(s) THEN [s EXCEPT !.ops = @ + 1, !.cur = [b EXCEPT !.stored = NoStored]]
    ELSE s

\* StoredBlock.perform_flush of the block object b with id `id`: a block
\* that never hit the backend goes through Storage.store_block_be, another
\* through Storage.updated_block_type and flush_block_be.
perform_flush(s, id, b) ==
    IF b.stored.refcnt = NoneRc
    THEN IF ~Falsy(b.refcnt)
         THEN flushed(update_block_data_dependencies(be_store_block(s, id, b),
                                                     id, b.data, TRUE), b)
         ELSE [s EXCEPT !.cur = b]
    ELSE flushed(be_flush_block(
                     update_block_data_dependencies(
                         update_block_data_dependencies(s, id, b.data, TRUE),
                         id, b.data, FALSE),
                     id, b), b)

\* DirtyMixin.flush, whose None for a clean block cannot be added to ops.
flush_block(s, id, b) ==
    IF ~b.dirty THEN Raise(s, "TypeError: ops += None")
    ELSE perform_flush(s, id, [b EXCEPT !.dirty = FALSE])

\* The size of the data of a block object in the cache's accounting.
SizeOf(b) == IF b.data THEN DataSize ELSE 0

\* DelayedStorage.flush_dirty_store_block: get_cache_delta, then flush.
flush_dirty_store_block(s, id, b) ==
    IF ~Ok(s) THEN s
    ELSE flush_block([s EXCEPT !.csz = @ + (SizeOf(b) - b.cache_size)], id,
                     [b EXCEPT !.cache_size = SizeOf(b)])

\* The flushed object is the cached one when the detached dict aliases it.
keep_flushed(s, e) ==
    IF Ok(s) /\ e.alias THEN [s EXCEPT !.c[e.id] = s.cur] ELSE s

\* ops += 1 for a deletion
counted(s) == IF Ok(s) /\ s.ret THEN [s EXCEPT !.ops = @ + 1] ELSE s

\* if not block.refcnt: if self.delete_block_id_if_no_extref(block.id): ...
delete_flushed(s, id) ==
    IF ~Ok(s) THEN s
    ELSE IF Falsy(s.cur.refcnt) THEN counted(delete_block_id_if_no_extref(s, id))
    ELSE s

\* One round of the for loop of Storage.flush_dirty_store_blocks.  An entry
\* of the detached dict is the cached object itself (alias) or an object
\* that only the detached dict still holds (snap).
flush_entry(s, e) ==
    IF ~Ok(s) THEN s
    ELSE delete_flushed(
             keep_flushed(
                 flush_dirty_store_block(s, e.id, IF e.alias THEN s.c[e.id] ELSE e.snap),
                 e),
             e.id)

RECURSIVE flush_entries(_, _)
flush_entries(s, es) ==
    IF es = <<>> \/ ~Ok(s) THEN s ELSE flush_entries(flush_entry(s, Head(es)), Tail(es))

\* blocks = self._dirty_bid2block.values(); del self._dirty_bid2block
\* An object that was dropped from the cache is from now on reachable only
\* through the detached dict.
Detached(s) ==
    [i \in 1..Len(s.d) |-> [id |-> s.d[i], alias |-> s.d[i] \in s.ca, snap |-> s.c[s.d[i]]]]

Detach(s) ==
    [s EXCEPT !.d = <<>>,
              !.c = [id \in Ids |-> IF InSeq(s.d, id) /\ id \notin s.ca THEN NoBlock ELSE s.c[id]]]

\* Storage.flush_dirty_store_blocks
RECURSIVE flush_dirty_store_blocks(_)
flush_dirty_store_blocks(s) ==
    IF ~Ok(s) \/ s.d = <<>> THEN s
    ELSE flush_dirty_store_blocks(flush_entries(Detach(s), Detached(s)))

\* ops += 1; deleted = True
counted_deleted(s) ==
    IF Ok(s) /\ s.ret THEN [s EXCEPT !.ops = @ + 1, !.deleted = TRUE] ELSE s

\* if not r.refcnt: if self.delete_block_id_if_no_extref(block_id): ...
delete_dangling(s, id) ==
    IF ~Ok(s) THEN s
    ELSE IF Falsy(s.c[id].refcnt)
         THEN counted_deleted(delete_block_id_if_no_extref(s, id))
    ELSE s

\* The for loop of Storage.flush over the detached set, in iteration order
\* ord (a Python set iterates in an order the program does not control).
RECURSIVE flush_dangling(_, _)
flush_dangling(s, ord) ==
    IF ord = <<>> \/ ~Ok(s) THEN s
    ELSE flush_dangling(delete_dangling(goc_block_by_id(s, Head(ord)), Head(ord)),
                        Tail(ord))

\* The while loop of Storage.flush: retry the dangling blocks as long as a
\* round deleted one.
RECURSIVE flush_retry(_, _)
flush_retry(s, order) ==
    IF ~Ok(s) \/ s.rr = {} \/ ~s.deleted THEN s
    ELSE flush_retry(flush_dangling([s EXCEPT !.rr = {}, !.deleted = FALSE],
                                    SelectSeq(order, LAMBDA id: id \in s.rr)),
                     order)

\* Storage.flush; flush_done has no effect on a backend whose operations
\* are applied one by one.
Storage_flush(s, order) ==
    flush_dirty_store_blocks(flush_retry([s EXCEPT !.deleted = TRUE], order))

\* One round of the loop of _flush_names.
flush_name(s, n) ==
    IF s.nm[n][1] # s.nm[n][2]
    THEN Logged([s EXCEPT !.bn[n] = s.nm[n][1],
                          !.nm[n] = <<s.nm[n][1], s.nm[n][1]>>,
                          !.ops = @ + 1])
    ELSE s

\* DelayedStorage._flush_names
RECURSIVE flush_names(_, _)
flush_names(s, ns) ==
    IF ns = {} THEN s
    ELSE flush_names(flush_name(s, CHOOSE x \in ns: TRUE), ns \ {CHOOSE x \in ns: TRUE})

\* DelayedStorage._shrink_cache: the cached objects sorted by last use are
\* dropped, oldest first, until cache_size is at most 3/4 of the limit.
RECURSIVE shrink_loop(_, _)
shrink_loop(s, l) ==
    IF ~Ok(s) \/ l = <<>> \/ ~(s.csz > (maximum_cache_size * 3) \div 4) THEN s
    ELSE shrink_loop(delete_cached_block(s, Head(l)), Tail(l))

shrink_cache(s) == shrink_loop(s, s.lru)

\* if self.maximum_cache_size and self.cache_size > self.maximum_cache_size
shrink_if_over(s) ==
    IF Ok(s) /\ maximum_cache_size # 0 /\ s.csz > maximum_cache_size
    THEN shrink_cache(s)
    ELSE s

\* DelayedStorage.flush
DelayedStorage_flush(s, order) ==
    shrink_if_over(Storage_flush(flush_names(s, Names), order))

\* Storage.store_block in the place of DelayedStorage.store_block: the block
\* is inserted into the backend at once.
store_through(s, id) ==
    IF ~Ok(s) THEN s
    ELSE be_store_block([s EXCEPT !.c[id].data = TRUE, !.c[id].refcnt = 1], id,
                        [s.c[id] EXCEPT !.data = TRUE, !.refcnt = 1])

store_new_through(s, id) ==
    IF ~Ok(s) THEN s
    ELSE IF ~Falsy(s.c[id].refcnt) THEN Raise(s, "AssertionError: not block.refcnt")
    ELSE store_through(mark_dirty(s, id), id)

store_block_through(s, id) == store_new_through(goc_block_by_id(s, id), id)

\* set_data, set_refcnt and set_type on the dirty block, the cache
\* accounting, and the references of the data.
store_fields(s, id) ==
    IF ~Ok(s) THEN s
    ELSE update_block_data_dependencies(
             [s EXCEPT !.c[id].data = TRUE, !.c[id].refcnt = 1,
                       !.c[id].cache_size = DataSize,
                       !.csz = @ + (DataSize - s.c[id].cache_size)],
             id, TRUE, TRUE)

\* assert not block.refcnt and refcnt
store_new(s, id) ==
    IF ~Ok(s) THEN s
    ELSE IF ~Falsy(s.c[id].refcnt) THEN Raise(s, "AssertionError: not block.refcnt")
    ELSE store_fields(mark_dirty(s, id), id)

\* DelayedStorage.store_block(block_id, block_data): refcnt=1, type NORMAL.
store_block(s, id) == store_new(goc_block_by_id(s, id), id)

\* Storage.refer_or_store_block once get_block_by_id has looked the block up.
refer_or_store_found(s, id) ==
    IF Visible(s, id, FALSE) THEN refer_block(s, id) ELSE store_block(s, id)

\* Storage.refer_or_store_block
refer_or_store_block(s, id) ==
    refer_or_store_found(goc_block_by_id([s EXCEPT !.rr = @ \ {id}], id), id)

\* if block_id: self.refer_block(block_id)
refer_new(s, id) == IF id # NoId THEN refer_block(s, id) ELSE s

\* if old_block_id: self.release_block(old_block_id)
release_old(s, old) == IF old # NoId THEN release_block(s, old) ELSE s

\* DelayedStorage.set_block_name_be
set_block_name_be(s, id, n) ==
    IF Ok(s) THEN [s EXCEPT !.nm[n] = <<id, @[2]>>] ELSE s

\* Storage.set_block_name; id may be NoId to clear the name.
set_block_name(s, id, n) ==
    IF s.nm[n][1] = id THEN s
    ELSE set_block_name_be(release_old(refer_new(s, id), s.nm[n][1]), id, n)

\* ------------------------------------------------------------ the callers
\* What get_block_by_id(id) would find: the refcount of the object the store
\* reaches, else of the backend's row.
RefcntOf(id) ==
    IF cache[id].live THEN cache[id].refcnt
    ELSE IF bid2block[id].present THEN bid2block[id].refcnt
    ELSE NoneRc

\* get_block_by_id(id) returns a block.
Retrievable(id) == ~(Falsy(RefcntOf(id)) /\ ~block_id_has_references_callback(id))

\* ... and the block has been stored (it has data and a refcount).
HasBlock(id) == Retrievable(id) /\ RefcntOf(id) # NoneRc

\* All orders in which a Python set may iterate over the ids.
Orders == {q \in [1..Cardinality(Ids) -> Ids]: \A i, j \in 1..Cardinality(Ids): i # j => q[i] # q[j]}

\* The state after a call.  A call that raised leaves the model in the state
\* before the call with err set: what the store looks like half way through a
\* handler is not followed any further.
Commit(s, op, ops) ==
    /\ cache' = IF Ok(s) THEN s.c ELSE cache
    /\ cached' = IF Ok(s) THEN s.ca ELSE cached
    /\ dirty' = IF Ok(s) THEN s.d ELSE dirty
    /\ rr0' = IF Ok(s) THEN s.rr ELSE rr0
    /\ names' = IF Ok(s) THEN s.nm ELSE names
    /\ cache_size' = IF Ok(s) THEN s.csz ELSE cache_size
    /\ lru' = IF Ok(s) THEN s.lru ELSE lru
    /\ bid2block' = IF Ok(s) THEN s.be ELSE bid2block
    /\ name2bid' = IF Ok(s) THEN s.bn ELSE name2bid
    /\ belog' = IF Ok(s) THEN s.log ELSE <<>>
    /\ dels' = s.dels
    /\ err' = s.err
    /\ last' = [op |-> op, ops |-> IF Ok(s) THEN ops ELSE 0]
    /\ UNCHANGED <<maximum_cache_size, extref>>
    /\ UNCHANGED <<fvars, xvars>>

StoreStart ==
    /\ cache = [id \in Ids |-> NoBlock]
    /\ cached = {}
    /\ dirty = <<>>
    /\ rr0 = {}
    /\ names = [n \in Names |-> <<NoId, NoId>>]
    /\ cache_size = 0
    /\ lru = <<>>
    /\ maximum_cache_size = 0
    /\ bid2block = [id \in Ids |-> NoRow]
    /\ name2bid = [n \in Names |-> NoId]
    /\ extref = {}
    /\ held = [id \in Ids |-> 0]
    /\ last = [op |-> "init", ops |-> 0]
    /\ belog = <<>>
    /\ dels = {}
    /\ err = "ok"

Init == StoreStart /\ FileInit

\* store_block(id, data) by a caller that found no block under the id and
\* has stored the blocks the data references.
StoreBlock(id) ==
    /\ err = "ok"
    /\ cache_size <= MaxCacheSize
    /\ ~Retrievable(id)
    /\ held[id] < MaxHeld
    /\ \A i \in 1..Len(DataRefs(id)):
          HasBlock(DataRefs(id)[i]) /\ RefcntOf(DataRefs(id)[i]) + 2 <= MaxRefcnt
    /\ held' = [held EXCEPT ![id] = @ + 1]
    /\ Commit(store_block(Store, id), "store_block", 0)

ReferBlock(id) ==
    /\ err = "ok"
    /\ cache_size <= MaxCacheSize
    /\ HasBlock(id)
    /\ RefcntOf(id) < MaxRefcnt
    /\ held[id] < MaxHeld
    /\ held' = [held EXCEPT ![id] = @ + 1]
    /\ Commit(refer_block(Store, id), "refer_block", 0)

\* release_block(id) by a caller that holds a reference on id.
ReleaseBlock(id) ==
    /\ err = "ok"
    /\ cache_size <= MaxCacheSize
    /\ held[id] > 0
    /\ held' = [held EXCEPT ![id] = @ - 1]
    /\ Commit(release_block(Store, id), "release_block", 0)

ReferOrStoreBlock(id) ==
    /\ err = "ok"
    /\ cache_size <= MaxCacheSize
    /\ RefcntOf(id) < MaxRefcnt
    /\ held[id] < MaxHeld
    /\ \A i \in 1..Len(DataRefs(id)):
          HasBlock(DataRefs(id)[i]) /\ RefcntOf(DataRefs(id)[i]) + 2 <= MaxRefcnt
    /\ held' = [held EXCEPT ![id] = @ + 1]
    /\ Commit(refer_or_store_block(Store, id), "refer_or_store_block", 0)

SetBlockName(id, n) ==
    /\ err = "ok"
    /\ cache_size <= MaxCacheSize
    /\ id # NoId => HasBlock(id) /\ RefcntOf(id) < MaxRefcnt
    /\ UNCHANGED held
    /\ Commit(set_block_name(Store, id, n), "set_block_name", 0)

\* ops = self.flush()
CommitFlush(s) == Commit(s, "flush", s.ops)

Flush ==
    /\ err = "ok"
    /\ cache_size <= MaxCacheSize
    /\ UNCHANGED held
    /\ \E order \in Orders: CommitFlush(DelayedStorage_flush(Store, order))

\* An extref callback changes its answer for one id (an inode takes or drops
\* the block).
SetExtref(id) ==
    /\ err = "ok"
    /\ extref' = IF id \in extref THEN extref \ {id} ELSE extref \cup {id}
    /\ last' = [op |-> "extref", ops |-> 0]
    /\ belog' = <<>>
    /\ dels' = {}
    /\ UNCHANGED <<cache, cached, dirty, rr0, names, cache_size, lru,
                   maximum_cache_size, bid2block, name2bid, held, err>>
    /\ UNCHANGED <<fvars, xvars>>

Next ==
    \/ \E id \in Ids: StoreBlock(id)
    \/ \E id \in Ids: ReferBlock(id)
    \/ \E id \in Ids: ReleaseBlock(id)
    \/ \E id \in Ids: ReferOrStoreBlock(id)
    \/ \E id \in Ids \cup {NoId}, n \in Names: SetBlockName(id, n)
    \/ Flush
    \/ \E id \in Ids: SetExtref(id)

Spec == Init /\ [][Next]_vars

\* The store with a cache limit (maximum_cache_size is set by the owner of
\* the store after construction): flush then ends with _shrink_cache.
CacheLimit == 1

InitCache ==
    /\ maximum_cache_size = CacheLimit
    /\ cache = [id \in Ids |-> NoBlock]
    /\ cached = {}
    /\ dirty = <<>>
    /\ rr0 = {}
    /\ names = [n \in Names |-> <<NoId, NoId>>]
    /\ cache_size = 0
    /\ lru = <<>>
    /\ bid2block = [id \in Ids |-> NoRow]
    /\ name2bid = [n \in Names |-> NoId]
    /\ extref = {}
    /\ held = [id \in Ids |-> 0]
    /\ last = [op |-> "init", ops |-> 0]
    /\ belog = <<>>
    /\ dels = {}
    /\ err = "ok"
    /\ FileInit

SpecCache == InitCache /\ [][Next]_vars

\* ============================================================ forest_file.py
\* The file record an operation threads through its calls.  ssize holds the
\* local variable of the same name of _to_block_tree.  Blocks are content
\* addressed and the block store is taken to keep every block an entry, a
\* leaf or a persisted tree refers to, so a leaf is modelled by its content.
File == [block_data |-> block_data, minifile |-> minifile, st_size |-> st_size,
         node |-> node, content |-> content, leaves |-> leaves,
         write_blocks |-> write_blocks, dirty |-> file_dirty,
         node_dirty |-> node_dirty, dirty_node_set |-> dirty_node_set,
         ssize |-> 0, err |-> "ok"]

FOk(f) == f.err = "ok"

\* FileINode.load_node: an inode without node makes its node from the block
\* id of the directory entry, which is the one the last Forest.flush put
\* there: a FileData node for a minifile, else a tree node.  set_node
\* formats the node for its debug line, which loads the tree, and
\* load_from_data asserts that the block is a tree.
load_node(f) ==
    IF f.node # "None" \/ disk.node = "None" THEN f
    ELSE IF f.minifile THEN [f EXCEPT !.node = "data", !.content = disk.content]
    ELSE IF disk.node = "tree"
         THEN [f EXCEPT !.node = "tree", !.leaves = disk.leaves, !.node_dirty = FALSE]
    ELSE [f EXCEPT !.err = "AssertionError"]

Min2(a, b) == IF a < b THEN a ELSE b
Max2(a, b) == IF a > b THEN a ELSE b

\* bytes(n)
bytes(n) == [i \in 1..n |-> 0]

\* `if s is None: s = b''`, and `d and ... or b''` for a d that is None
Bytes(d) == IF d = NoData THEN <<>> ELSE d

\* The end of the Python slice s[lo:hi] of n bytes: a negative hi counts from
\* the end.
SliceEnd(n, hi) == IF hi < 0 THEN Max2(0, n + hi) ELSE Min2(hi, n)

\* s[lo:hi] for lo >= 0
PySlice(s, lo, hi) == SubSeq(s, Min2(lo, Len(s)) + 1, SliceEnd(Len(s), hi))

\* util.zeropad_bytes
zeropad_bytes(size, s) ==
    IF size - Len(s) > 0 THEN s \o bytes(size - Len(s)) ELSE s

\* FileINode._tree_key_for_ofs: the key, the offset in the block and the
\* size cut at the end of the block.
KeyOf(ofs) == ofs \div BLOCK_SIZE_LIMIT
InBlock(ofs) == ofs - KeyOf(ofs) * BLOCK_SIZE_LIMIT
CutSize(ofs, size) == Min2(size, BLOCK_SIZE_LIMIT - InBlock(ofs))

\* FileINode._tree_node_key_data_for_ofs: the node and the data of the
\* pending write of the key, else of the leaf of the tree, else no node and
\* size zero bytes.
tree_node(f, k) ==
    IF f.write_blocks[k] # NoEntry THEN f.write_blocks[k].node
    ELSE IF f.leaves[k] # NoData THEN "leaf"
    ELSE "None"

tree_data(f, k, size) ==
    IF f.write_blocks[k] # NoEntry THEN f.write_blocks[k].data
    ELSE IF f.leaves[k] # NoData THEN f.leaves[k]
    ELSE bytes(size)

\* The last lines of FileINode._read: r = d and d[ofs:ofs + size] or b'',
\* padded when pad is set.
read_slice(d, ofs, size, pad) ==
    IF pad THEN zeropad_bytes(size, PySlice(Bytes(d), ofs, ofs + size))
    ELSE PySlice(Bytes(d), ofs, ofs + size)

\* FileINode._read once load_node has run
_read(f, ofs, size, pad) ==
    IF f.node = "None" THEN read_slice(f.block_data, ofs, size, pad)
    ELSE IF f.node = "data" THEN read_slice(f.content, ofs, size, pad)
    ELSE read_slice(tree_data(f, KeyOf(ofs), CutSize(ofs, size)), InBlock(ofs),
                    Min2(Min2(size, f.st_size - ofs),
                         BLOCK_SIZE_LIMIT - InBlock(ofs)), TRUE)

\* FileINode.read once load_node has run
RECURSIVE read(_, _, _)
read_more(f, ofs, size, r) ==
    IF r = <<>> THEN <<>> ELSE r \o read(f, ofs + Len(r), size - Len(r))
read(f, ofs, size) ==
    IF size > 0 THEN read_more(f, ofs, size, _read(f, ofs, size, FALSE)) ELSE <<>>

\* LoadedTreeNode.mark_dirty of the root of the file's tree: a node that
\* turns dirty enters Forest.dirty_node_set.
mark_node_dirty(f) ==
    IF f.node_dirty THEN f
    ELSE [f EXCEPT !.node_dirty = TRUE, !.dirty_node_set = @ \cup {"node"}]

\* FileINode.perform_flush: an entry without a node gets a new leaf, which
\* add_to_tree puts into the tree; the block of the data becomes the block
\* of the entry's node.  A node that is no leaf of the tree any more leaves
\* the tree as it is.
stored_leaves(f) ==
    [f EXCEPT !.leaves = [k \in Keys |->
                            IF f.write_blocks[k].node \in {"None", "leaf"}
                            THEN f.write_blocks[k].data ELSE f.leaves[k]],
              !.write_blocks = [k \in Keys |-> NoEntry]]

FileINode_perform_flush(f) ==
    IF \A k \in Keys: f.write_blocks[k] = NoEntry THEN f
    ELSE IF \E k \in Keys: f.write_blocks[k].node = "None"
         THEN stored_leaves(mark_node_dirty(f))
    ELSE stored_leaves(f)

\* DirtyMixin.flush of the FileINode
FileINode_flush(f) ==
    IF f.dirty THEN FileINode_perform_flush([f EXCEPT !.dirty = FALSE]) ELSE f

\* FileINode.stored_size of a tree, once flush has run
LastLeaf(f) == CHOOSE k \in Keys:
                  f.leaves[k] # NoData /\ \A j \in Keys: f.leaves[j] # NoData => j <= k
StoredSize(f) ==
    IF \A k \in Keys: f.leaves[k] = NoData THEN 0
    ELSE LastLeaf(f) * BLOCK_SIZE_LIMIT + Len(f.leaves[LastLeaf(f)])

\* ssize = self.stored_size
with_stored_size(f) == [f EXCEPT !.ssize = StoredSize(f)]
stored_size(f) == with_stored_size(FileINode_flush(f))

\* _replace in FileINode._write, for ns = buf[bufofs:bufofs + bufmax]
replace(s, ofs, ns) ==
    PySlice(s, 0, ofs) \o bytes(Max2(0, ofs - Len(s))) \o ns
        \o PySlice(s, ofs + Len(ns), Len(s))

\* ns of _replace: bufmax is 0 outside a tree, and `bufmax or len(buf)`
\* takes the whole buffer then.
taken(f, ofs, buf, bufofs) ==
    IF f.node = "tree" /\ Min2(Len(buf), BLOCK_SIZE_LIMIT - InBlock(ofs)) # 0
    THEN PySlice(buf, bufofs, bufofs + Min2(Len(buf), BLOCK_SIZE_LIMIT - InBlock(ofs)))
    ELSE PySlice(buf, bufofs, bufofs + Len(buf))

\* DirtyMixin.mark_dirty of the FileINode.  mark_dirty_related adds the file
\* to forest.dirty_file_set, which Forest.flush never reads.
FileINode_mark_dirty(f) == [f EXCEPT !.dirty = TRUE]

\* FileINode.set_write_block
set_write_block(f, nd, k, data) ==
    [f EXCEPT !.write_blocks[k] = [node |-> nd, data |-> data]]

\* FileINode._write
written(f, ofs, buf, bufofs) ==
    IF ~FOk(f) THEN f
    ELSE IF f.node = "None"
    THEN [f EXCEPT !.block_data = replace(Bytes(@), ofs, taken(f, ofs, buf, bufofs))]
    ELSE IF f.node = "data"
    THEN [f EXCEPT !.content = replace(Bytes(@), ofs, taken(f, ofs, buf, bufofs))]
    ELSE set_write_block(FileINode_mark_dirty(f), tree_node(f, KeyOf(ofs)), KeyOf(ofs),
                         replace(tree_data(f, KeyOf(ofs), CutSize(ofs, Len(buf))),
                                 InBlock(ofs), taken(f, ofs, buf, bufofs)))

_write(f, ofs, buf, bufofs) ==
    IF FOk(f) THEN written(load_node(f), ofs, buf, bufofs) ELSE f

\* wrote = bufofs - obufofs
wrote(f, ofs, buf, bufofs) == Len(taken(load_node(f), ofs, buf, bufofs))

\* INode.set_node away from a tree node: the node stays in
\* Forest.dirty_node_set when it is there, as the node of no inode.
leave_tree(f) ==
    IF f.node = "tree"
    THEN [f EXCEPT !.leaves = [k \in Keys |-> NoData], !.node_dirty = FALSE,
                   !.dirty_node_set = IF "node" \in @
                                      THEN (@ \ {"node"}) \cup {"old"} ELSE @]
    ELSE f

\* FileINode._to_block_data
installed_data(f, s) ==
    [f EXCEPT !.minifile = TRUE, !.block_data = NoData, !.node = "data",
              !.content = s, !.write_blocks = [k \in Keys |-> NoEntry]]
data_of(f, size) ==
    IF FOk(f) THEN installed_data(leave_tree(f), _read(f, 0, size, TRUE)) ELSE f
_to_block_data(f, size) == IF FOk(f) THEN data_of(load_node(f), size) ELSE f

\* FileINode._to_interned_data
installed_interned(f, s) ==
    [f EXCEPT !.minifile = FALSE, !.block_data = s, !.node = "None",
              !.content = NoData, !.write_blocks = [k \in Keys |-> NoEntry]]
interned_of(f, size) ==
    IF FOk(f) THEN installed_interned(leave_tree(f), _read(f, 0, size, TRUE)) ELSE f
_to_interned_data(f, size) == IF FOk(f) THEN interned_of(load_node(f), size) ELSE f

\* FileINode._to_block_tree, the file that is no tree yet: a new tree, the
\* old content written at 0 (no resize), ssize = self.stored_size.
new_tree(f) ==
    [f EXCEPT !.minifile = FALSE, !.block_data = NoData, !.node = "tree",
              !.content = NoData, !.leaves = [k \in Keys |-> NoData],
              !.node_dirty = FALSE]
as_tree(f) ==
    IF ~FOk(f) THEN f
    ELSE IF f.node = "tree" THEN [f EXCEPT !.ssize = f.st_size]
    ELSE stored_size(_write(new_tree(f), 0, read(f, 0, f.st_size), 0))

\* The loop over self.node.last_leaf: the leaves at or past size leave the
\* tree, which turns dirty.
removed_leaves(f, size) ==
    [f EXCEPT !.leaves = [k \in Keys |->
                            IF k * BLOCK_SIZE_LIMIT >= size THEN NoData ELSE @[k]]]
remove_leaves(f, size) ==
    IF \E k \in Keys: f.leaves[k] # NoData /\ k * BLOCK_SIZE_LIMIT >= size
    THEN removed_leaves(mark_node_dirty(f), size)
    ELSE f

\* `if buf: self._write(bofs, buf)`
write_tail(f, bofs, buf) == IF buf # <<>> THEN _write(f, bofs, buf, 0) ELSE f

\* bofs = size - size % const.BLOCK_SIZE_LIMIT
BlockStart(size) == size - (size % BLOCK_SIZE_LIMIT)

\* The branch `if ssize > size` of _to_block_tree once self.flush() has run.
shrink_flushed(f, size) ==
    stored_size(FileINode_flush(write_tail(remove_leaves(f, size), BlockStart(size),
                                           read(f, BlockStart(size),
                                                size % BLOCK_SIZE_LIMIT))))
shrink_tree(f, size) ==
    IF FOk(f) /\ f.ssize > size THEN shrink_flushed(FileINode_flush(f), size) ELSE f

\* `if ssize < size: self._write(size, b'')`
reserve(f, size) == IF FOk(f) /\ f.ssize < size THEN _write(f, size, <<>>, 0) ELSE f

\* FileINode._to_block_tree
_to_block_tree(f, size, minimum_size) ==
    reserve(shrink_tree(as_tree(load_node(f)), size),
            IF minimum_size # NoMin THEN minimum_size ELSE size)

\* FileINode.set_size
resized(f, size, minimum_size) ==
    IF size > BLOCK_SIZE_LIMIT THEN _to_block_tree(f, size, minimum_size)
    ELSE IF size > INTERNED_BLOCK_DATA_SIZE_LIMIT THEN _to_block_data(f, size)
    ELSE _to_interned_data(f, size)
with_size(f, size) == IF FOk(f) THEN [f EXCEPT !.st_size = size] ELSE f
set_size(f, size, minimum_size) ==
    IF ~FOk(f) \/ f.st_size = size THEN f
    ELSE IF minimum_size = NoMin
         THEN with_size(resized(FileINode_flush(f), size, minimum_size), size)
    ELSE with_size(resized(f, size, minimum_size), size)

\* FileINode.write
RECURSIVE write_loop(_, _, _, _)
write_loop(f, ofs, buf, done) ==
    IF FOk(f) /\ done < Len(buf)
    THEN write_loop(_write(f, ofs + done, buf, done), ofs, buf,
                    done + wrote(f, ofs + done, buf, done))
    ELSE f
write(f, ofs, buf) ==
    IF f.st_size < ofs + Len(buf)
    THEN write_loop(set_size(f, ofs + Len(buf), ofs), ofs, buf, 0)
    ELSE write_loop(f, ofs, buf, 0)

\* ------------------------------------------------------------ Forest.flush
\* The directory entry NamedLeafNode.perform_flush leaves in the persisted
\* directory: its own fields, and the block of inode.node after c.flush().
\* A FileData node stores its content; a tree node is serialized again only
\* when it is dirty.
persisted(f) ==
    [present |-> TRUE, block_data |-> f.block_data, minifile |-> f.minifile,
     st_size |-> f.st_size, node |-> f.node, content |-> f.content,
     leaves |-> IF f.node = "tree" /\ ~f.node_dirty THEN disk.leaves ELSE f.leaves]

\* unload_nonprotected_nodes: the clean tree node of the file is unloaded
\* and loads from its block again, with new leaves; the nodes of the
\* pending writes are leaves of the tree no more.
detached(e) == IF e.node = "leaf" THEN [e EXCEPT !.node = "detached"] ELSE e
unloaded(f, d) ==
    [f EXCEPT !.leaves = d.leaves, !.node_dirty = FALSE, !.dirty_node_set = {},
              !.write_blocks = [k \in Keys |-> detached(@[k])]]

\* The reference byte array.
ref_write(a, ofs, buf) ==
    replace(zeropad_bytes(ofs + Len(buf), a), ofs, buf)
ref_set_size(a, size) == zeropad_bytes(size, PySlice(a, 0, size))

\* The state after a file operation.
CommitFile(f) ==
    /\ block_data' = f.block_data
    /\ minifile' = f.minifile
    /\ st_size' = f.st_size
    /\ node' = f.node
    /\ content' = f.content
    /\ leaves' = f.leaves
    /\ write_blocks' = f.write_blocks
    /\ file_dirty' = f.dirty
    /\ node_dirty' = f.node_dirty
    /\ dirty_node_set' = f.dirty_node_set
    /\ UNCHANGED <<svars, xvars>>

\* What an operation returned; ok is FALSE when it raised.
Done(op, f) == [op |-> op, ok |-> FOk(f), ofs |-> 0, size |-> 0, data |-> <<>>]

\* inode.write(ofs, buf)
Write(ofs, buf) ==
    /\ ofs + Len(buf) <= MaxSize
    /\ CommitFile(write(File, ofs, buf))
    /\ ref' = IF FOk(write(File, ofs, buf)) THEN ref_write(ref, ofs, buf) ELSE ref
    /\ flast' = Done("write", write(File, ofs, buf))
    /\ UNCHANGED disk

\* inode.set_size(size)
SetSize(size) ==
    /\ CommitFile(set_size(File, size, NoMin))
    /\ ref' = IF FOk(set_size(File, size, NoMin)) THEN ref_set_size(ref, size) ELSE ref
    /\ flast' = Done("set_size", set_size(File, size, NoMin))
    /\ UNCHANGED disk

\* What read returns of a file that load_node has run on.
Returned(op, f, ofs, size) ==
    [op |-> op, ok |-> FOk(f), ofs |-> ofs, size |-> size,
     data |-> IF FOk(f) THEN read(f, ofs, size) ELSE <<>>]

\* inode.read(ofs, size)
Read(ofs, size) ==
    /\ CommitFile(load_node(File))
    /\ flast' = Returned("read", load_node(File), ofs, size)
    /\ UNCHANGED <<disk, ref>>

\* Forest.flush.  get_by_node raises KeyError for a node of dirty_node_set
\* that is the node of no inode; the set is empty by then.
ForestFlush ==
    IF "old" \in dirty_node_set
    THEN /\ dirty_node_set' = {}
         /\ flast' = Done("flush", [File EXCEPT !.err = "KeyError"])
         /\ UNCHANGED <<svars, xvars, block_data, minifile, st_size, node, content,
                        leaves, write_blocks, file_dirty, node_dirty, disk, ref>>
    ELSE /\ disk' = persisted(File)
         /\ CommitFile(unloaded(File, persisted(File)))
         /\ flast' = Done("flush", File)
         /\ UNCHANGED ref

\* The FileINode that lookup makes in a forest opened on the same backend:
\* load_node makes its node from the block id and the minifile flag of the
\* directory entry.
Reopened ==
    load_node([block_data |-> disk.block_data, minifile |-> disk.minifile,
               st_size |-> disk.st_size, node |-> "None", content |-> NoData,
               leaves |-> [k \in Keys |-> NoData],
               write_blocks |-> [k \in Keys |-> NoEntry], dirty |-> FALSE,
               node_dirty |-> FALSE, dirty_node_set |-> {}, ssize |-> 0,
               err |-> "ok"])

\* Forest(storage), lookup and inode.read(0, inode.size)
Reopen ==
    /\ disk.present
    /\ flast' = Returned("reopen", Reopened, 0, Reopened.st_size)
    /\ UNCHANGED <<svars, xvars, block_data, minifile, st_size, node, content, leaves,
                   write_blocks, file_dirty, node_dirty, dirty_node_set, disk, ref>>

\* The buffers of n bytes of one value.
Bufs == {[i \in 1..n |-> v]: n \in 1..MaxBuf, v \in ByteVals}

NextFile ==
    \/ \E ofs \in 0..MaxSize, buf \in Bufs: Write(ofs, buf)
    \/ \E size \in 0..MaxSize: SetSize(size)
    \/ \E ofs \in 0..MaxSize, size \in 1..MaxSize: Read(ofs, size)

SpecFile == Init /\ [][NextFile]_vars

\* inode.open(flags) with O_TRUNC: self.set_size(0)
OpenTrunc == SetSize(0)

NextForest ==
    \/ \E ofs \in 0..MaxSize, buf \in Bufs: Write(ofs, buf)
    \/ OpenTrunc
    \/ ForestFlush
    \/ Reopen

SpecForest == Init /\ [][NextForest]_vars

\* ------------------------------------------------------------------ C1
\* C1: a block is removed from the backend only when its refcount is zero
\* and no external-reference callback claims its id.  dels holds the
\* backend deletions of the last call, each with the refcount of the block
\* and the callbacks' answer at the moment of the DELETE.
C1_DeleteOnlyUnreferenced ==
    \A e \in dels: e.present => (e.refcnt = 0 /\ ~e.claimed)

\* A flush has deleted a stored block while another id was claimed.
C1_Witness ==
    /\ last.op = "flush"
    /\ extref # {}
    /\ \E e \in dels: e.present /\ e.refcnt = 0 /\ ~e.claimed

\* ------------------------------------------------------------------ C2
\* A backend in which every id a name maps to and every id the data of a
\* stored block references is itself stored.
Closed(be, bn) ==
    /\ \A n \in Names: bn[n] # NoId => be[bn[n]].present
    /\ \A id \in Ids: be[id].present =>
          \A i \in 1..Len(DataRefs(id)): be[DataRefs(id)[i]].present

\* C2: at every point between two backend operations of a flush, each id
\* that a backend name maps to and each id referenced by the data of a block
\* in the backend is present in the backend.  belog holds the backend after
\* each backend operation of the last call.
C2_CrashConsistent ==
    \A i \in 1..Len(belog): Closed(belog[i].be, belog[i].bn)

\* ------------------------------------------------------------------ C3
\* The number of stored blocks of be whose data references id.
Referrers(be, id) ==
    Cardinality({r \in Ids: be[r].present /\ InSeq(DataRefs(r), id)})

\* The number of names of bn that map to id.
NamedBy(bn, id) == Cardinality({n \in Names: bn[n] = id})

\* C3: after every flush, the persisted refcount of every block in the
\* backend equals the number of persisted blocks whose data references it
\* plus the number of block names that map to it.  Stated for the flushes at
\* which no caller holds a reference of its own and no block is retained for
\* a callback, so that persisted blocks and names are the only referrers.
C3_PersistedRefcount ==
    (last.op = "flush" /\ err = "ok" /\ rr0 = {} /\ \A id \in Ids: held[id] = 0) =>
        \A id \in Ids: bid2block[id].present =>
            bid2block[id].refcnt = Referrers(bid2block, id) + NamedBy(name2bid, id)

\* ------------------------------------------------------------------ C4
\* The store holds a block under id: stored and not yet deleted.
InStore(id) == RefcntOf(id) # NoneRc

\* The number of blocks the store holds whose data references id.
StoreReferrers(id) ==
    Cardinality({r \in Ids: InStore(r) /\ InSeq(DataRefs(r), id)})

\* The part of the refcount of id that the store's dependency handling
\* contributed: what the callers and the names did not take.
DependencyPart(id) ==
    RefcntOf(id) - held[id] - Cardinality({n \in Names: names[n][1] = id})

\* C4: for every block B the store holds, the part of B's refcount that the
\* automatic dependency handling contributed equals the number of blocks
\* held by the store whose data references B.
C4_DependencySymmetric ==
    err = "ok" => \A b \in Ids: InStore(b) => DependencyPart(b) = StoreReferrers(b)

\* ------------------------------------------------------------------ C5
\* The data of id can be read: from an object the store reaches or from the
\* backend.
HasData(id) == (cache[id].live /\ cache[id].data) \/ bid2block[id].present

\* C5, first part: after a flush a block with refcount 0 that a callback
\* claims is on the referenced-refcnt0 set and its data is still there.
C5_ClaimedKept ==
    (last.op = "flush" /\ err = "ok") =>
        \A id \in extref: RefcntOf(id) = 0 => (id \in rr0 /\ HasData(id))

\* The retained blocks a flush finds unclaimed.
Unclaimed == {id \in rr0 \ extref: RefcntOf(id) = 0}

\* C5, second part: the first flush after the last claim on a retained block
\* is gone deletes the block.
C5_UnclaimedDeleted ==
    [][(last'.op = "flush" /\ Unclaimed # {}) =>
          (err' = "ok" /\ \A id \in Unclaimed:
                              ~bid2block'[id].present /\ ~cache'[id].live)]_vars

C7_FlushTwice ==
    [][(last.op = "flush" /\ last'.op = "flush") =>
          /\ err' = "ok"
          /\ last'.ops = 0
          /\ UNCHANGED <<bid2block, name2bid, cache, cached, dirty, names,
                         cache_size>>]_vars

\* A second flush in a row, with a retained refcount-0 block, after a first
\* flush that wrote to the backend.
C7_Witness ==
    /\ last = [op |-> "flush", ops |-> 0]
    /\ err = "ok"
    /\ belog = <<>>
    /\ \E id \in rr0 \cap extref: RefcntOf(id) = 0
    /\ \E id \in Ids: bid2block[id].present

\* ------------------------------------------------------------------ C8
\* The id a name maps to in the store.
NameOf(n) == names[n][1]

\* C8, first part: a set_block_name that moves n from old to another id
\* raises the refcount of id by 1, lowers that of old by 1 and makes the
\* name map to id; one that leaves the name where it is changes nothing.
C8_SetBlockName ==
    [][(last'.op = "set_block_name" /\ err' = "ok") =>
          \A n \in Names:
             IF NameOf(n)' = NameOf(n)
             THEN UNCHANGED <<bid2block, name2bid, cache, cached, dirty, rr0, names>>
             ELSE \A id \in Ids:
                     /\ id = NameOf(n)' => RefcntOf(id)' = RefcntOf(id) + 1
                     /\ id = NameOf(n) => RefcntOf(id)' = RefcntOf(id) - 1]_vars

\* C8, second part: a block that a name maps to survives every flush.
C8_NamedSurvives ==
    [][(last'.op = "flush" /\ err' = "ok") =>
          \A n \in Names: (NameOf(n) # NoId /\ HasData(NameOf(n))) =>
              bid2block'[NameOf(n)].present]_vars

\* ------------------------------------------------------------------ C9
\* C9: after any sequence of write and set_size, read(ofs, size) returns the
\* bytes the reference byte array holds in [ofs, min(ofs + size, file size)).
C9_ReadMatchesReference ==
    flast.op = "read" =>
        (flast.ok /\ flast.data = PySlice(ref, flast.ofs, flast.ofs + flast.size))

\* ------------------------------------------------------------------ C10
\* C10: the forest opened on the same backend right after a Forest.flush
\* that returned reads back the bytes written and reports their size.
C10_FlushPersists ==
    [][(flast.op = "flush" /\ flast.ok /\ flast'.op = "reopen")
       => (flast'.ok /\ flast'.size = Len(ref) /\ flast'.data = ref)]_vars

\* ------------------------------------------------------------------ C11
\* The three representations of a file of size s.
IsInline == node = "None" /\ ~minifile
IsSingleBlock == node = "data" /\ minifile
IsBlockTree == node = "tree"

\* C11: after a set_size or a write that returned, the file is inline iff its
\* size is at most INTERNED_BLOCK_DATA_SIZE_LIMIT, one FileData block with the
\* minifile flag iff its size is above that and at most BLOCK_SIZE_LIMIT, and
\* a block tree iff its size is above BLOCK_SIZE_LIMIT.
C11_RegimeBySize ==
    (flast.op \in {"write", "set_size"} /\ flast.ok) =>
        /\ IsInline <=> st_size <= INTERNED_BLOCK_DATA_SIZE_LIMIT
        /\ IsSingleBlock <=> (st_size > INTERNED_BLOCK_DATA_SIZE_LIMIT
                              /\ st_size <= BLOCK_SIZE_LIMIT)
        /\ IsBlockTree <=> st_size > BLOCK_SIZE_LIMIT

\* ==================================================== unlink of an open file
\* The record of a file whose regime is inline or single block, as
\* FileINode.set_leaf_node(None) leaves it: inline data that is not empty
\* turns into a FileData node first, and the directory entry is gone.
set_leaf_node_None(f) ==
    IF Bytes(f.block_data) # <<>> THEN _to_block_data(f, f.st_size) ELSE f

\* FileINode.size of a file without leaf_node is stored_size, which reads
\* self.leaf_node.block_data when the file has no node.
unlinked_size(f) == Len(Bytes(f.content))

\* FileINode.set_size of a file without leaf_node: `not self.leaf_node`
\* picks _to_block_data for every size up to BLOCK_SIZE_LIMIT, and
\* _to_block_tree of a file that is no tree calls ln.set_data on None.
unlinked_set_size(f, size) ==
    IF unlinked_size(f) = size THEN f
    ELSE IF size > BLOCK_SIZE_LIMIT THEN [f EXCEPT !.err = "AttributeError"]
    ELSE [f EXCEPT !.content = _read(f, 0, size, TRUE)]

\* FileINode.write of a file without leaf_node
unlinked_write(f, ofs, buf) ==
    IF f.node = "None" THEN [f EXCEPT !.err = "AttributeError"]
    ELSE IF unlinked_size(f) < ofs + Len(buf)
         THEN write_loop(unlinked_set_size(f, ofs + Len(buf)), ofs, buf, 0)
    ELSE write_loop(f, ofs, buf, 0)

\* FileINode._read of a file without leaf_node and without node reads
\* ln.block_data of None.
unlinked_loaded(f) ==
    IF f.node = "None" THEN [f EXCEPT !.err = "AttributeError"] ELSE f

\* FileDescriptor.write: an O_APPEND descriptor writes at inode.size.
fd_ofs(d, ofs) ==
    IF fds[d] # "append" THEN ofs
    ELSE IF leaf_node = "entry" THEN st_size ELSE unlinked_size(File)
fd_write(ofs, buf) ==
    IF leaf_node = "entry" THEN write(File, ofs, buf)
    ELSE unlinked_write(File, ofs, buf)

\* The largest file the descriptors write: a linked file stays within one
\* block, an unlinked one may try to grow past it.
FdLimit == IF leaf_node = "entry" THEN BLOCK_SIZE_LIMIT ELSE MaxSize

\* Operations.open
Open(d, flags) ==
    /\ leaf_node = "entry"
    /\ fds[d] = "closed"
    /\ fds' = [fds EXCEPT ![d] = flags]
    /\ flast' = Done("open", File)
    /\ UNCHANGED <<svars, block_data, minifile, st_size, node, content, leaves,
                   write_blocks, file_dirty, node_dirty, dirty_node_set, disk,
                   ref, leaf_node, root_dir, yvars>>

\* Operations.write
FdWrite(d, ofs, buf) ==
    /\ fds[d] # "closed"
    /\ fd_ofs(d, ofs) + Len(buf) <= FdLimit
    /\ CommitFile(fd_write(fd_ofs(d, ofs), buf))
    /\ ref' = IF FOk(fd_write(fd_ofs(d, ofs), buf))
              THEN ref_write(ref, fd_ofs(d, ofs), buf) ELSE ref
    /\ flast' = Done("write", fd_write(fd_ofs(d, ofs), buf))
    /\ UNCHANGED disk

\* Operations.read
FdRead(d, ofs, size) ==
    /\ fds[d] # "closed"
    /\ flast' = Returned("read", IF leaf_node = "entry" THEN load_node(File)
                                 ELSE unlinked_loaded(File), ofs, size)
    /\ UNCHANGED <<svars, xvars, block_data, minifile, st_size, node, content,
                   leaves, write_blocks, file_dirty, node_dirty, dirty_node_set,
                   disk, ref>>

\* Operations.unlink: the leaf leaves the directory's tree and the inode
\* loses its leaf_node.
Unlink ==
    /\ leaf_node = "entry"
    /\ root_dir' = root_dir \ {"file_one"}
    /\ leaf_node' = "None"
    /\ node' = set_leaf_node_None(File).node
    /\ content' = set_leaf_node_None(File).content
    /\ block_data' = NoData
    /\ minifile' = FALSE
    /\ st_size' = 0
    /\ flast' = Done("unlink", File)
    /\ UNCHANGED <<svars, leaves, write_blocks, file_dirty, node_dirty,
                   dirty_node_set, disk, ref, fds, yvars>>

\* Operations.release
Release(d) ==
    /\ fds[d] # "closed"
    /\ fds' = [fds EXCEPT ![d] = "closed"]
    /\ flast' = Done("release", File)
    /\ UNCHANGED <<svars, block_data, minifile, st_size, node, content, leaves,
                   write_blocks, file_dirty, node_dirty, dirty_node_set, disk,
                   ref, leaf_node, root_dir, yvars>>

NextUnlink ==
    \/ \E d \in Fds, flags \in {"rw", "append"}: Open(d, flags)
    \/ \E d \in Fds, ofs \in 0..MaxSize, buf \in Bufs: FdWrite(d, ofs, buf)
    \/ \E d \in Fds, ofs \in 0..MaxSize, size \in 1..MaxSize: FdRead(d, ofs, size)
    \/ Unlink
    \/ \E d \in Fds: Release(d)

SpecUnlink == Init /\ [][NextUnlink]_vars

\* ------------------------------------------------------------------ C12
\* C12: once the file is unlinked its name is in the directory no more, and
\* every read and write through an open descriptor succeeds, the reads
\* returning what the reference byte array holds.
C12_UnlinkedStillUsable ==
    leaf_node = "None" =>
        /\ "file_one" \notin root_dir
        /\ flast.op \in {"read", "write"} => flast.ok
        /\ flast.op = "read" =>
               flast.data = PySlice(ref, flast.ofs, flast.ofs + flast.size)

\* ---------------------------------------------------------------------
\* btree.py: the tree of TreeNodes and LeafNodes.  A node is a record that
\* holds its children; the parent of the node at path p is the node at
\* Front(p), and the root is the node at the empty path.

\* str.index that found nothing
NoIdx == -1

\* the tree under work and the exception that stopped the work, if any
BOk(b) == b.err = "ok"

BRaise(b, e) == [b EXCEPT !.err = e]

Front(p) == SubSeq(p, 1, Len(p) - 1)

RECURSIVE At(_, _)
At(t, p) == IF p = <<>> THEN t ELSE At(t.children[Head(p)], Tail(p))

RECURSIVE Put(_, _, _)
Put(t, p, n) ==
    IF p = <<>> THEN n ELSE [t EXCEPT !.children[Head(p)] = Put(@, Tail(p), n)]

BPut(b, p, n) == [b EXCEPT !.t = Put(@, p, n)]

\* list.insert and del list[i], positions counted from 0
Insert(s, i, x) == SubSeq(s, 1, i) \o <<x>> \o SubSeq(s, i + 1, Len(s))

Delete(s, i) == SubSeq(s, 1, i) \o SubSeq(s, i + 2, Len(s))

\* list.index: the first position of k, from 0
index(a, k) ==
    IF \E i \in 1..Len(a): a[i] = k
    THEN (CHOOSE i \in 1..Len(a): a[i] = k /\ \A j \in 1..(i - 1): a[j] # k) - 1
    ELSE NoIdx

\* bisect.bisect_right over a[lo:hi]
RECURSIVE bisect_right(_, _, _, _)
bisect_right(a, k, lo, hi) ==
    IF lo >= hi THEN lo
    ELSE IF k < a[((lo + hi) \div 2) + 1]
         THEN bisect_right(a, k, lo, (lo + hi) \div 2)
         ELSE bisect_right(a, k, ((lo + hi) \div 2) + 1, hi)

bisect(a, k) == bisect_right(a, k, 0, Len(a))

\* TreeNode.csize: every child adds its size, 1, and takes it away again
csize(n) == Len(n.children)

\* csize >= minimum_size, which is maximum_size * 1 / 4
at_minimum_size(n) == 4 * csize(n) >= maximum_size

\* csize >= has_spares_size, which is maximum_size / 2
at_has_spares_size(n) == 2 * csize(n) >= maximum_size

\* add_child_nocheck that never looks for the place of the key
add_child_nocheck_first(n, c, idx) ==
    [n EXCEPT !.child_keys = Insert(@, 0, c.key), !.children = Insert(@, 0, c)]

\* TreeNode.add_child_nocheck; idx = NoIdx is idx=None
add_child_nocheck(n, c, idx) ==
    [n EXCEPT !.child_keys = Insert(@, IF idx = NoIdx THEN bisect(n.child_keys, c.key)
                                       ELSE idx, c.key),
              !.children = Insert(@, IF idx = NoIdx THEN bisect(n.child_keys, c.key)
                                     ELSE idx, c)]

\* TreeNode.remove_child_nocheck with idx given
remove_child_nocheck(n, idx) ==
    [n EXCEPT !.children = Delete(@, idx), !.child_keys = Delete(@, idx)]

\* TreeNode.is_leafy
is_leafy(n) == n.children = <<>> \/ n.children[1].leaf

\* TreeNode.depth
RECURSIVE depth(_)
depth(n) == IF is_leafy(n) THEN 1 ELSE depth(n.children[1]) + 1

\* _update_key_maybe that leaves every key as it is
_update_key_never(b, p, force) == b

\* TreeNode._update_key_maybe of the node at p
RECURSIVE _update_key_maybe(_, _, _)
key_updated(b, p, nk, idx) ==
    IF idx = NoIdx THEN BRaise(b, "ValueError")
    ELSE IF idx = 0
         THEN _update_key_maybe(
                  BPut(BPut(b, Front(p),
                            [At(b.t, Front(p)) EXCEPT !.child_keys[idx + 1] = nk]),
                       p, [At(b.t, p) EXCEPT !.key = nk]),
                  Front(p), FALSE)
         ELSE BPut(BPut(b, Front(p),
                        [At(b.t, Front(p)) EXCEPT !.child_keys[idx + 1] = nk]),
                   p, [At(b.t, p) EXCEPT !.key = nk])

_update_key_maybe(b, p, force) ==
    IF ~BOk(b) THEN b
    ELSE IF At(b.t, p).child_keys = <<>> THEN BRaise(b, "IndexError")
    ELSE IF p = <<>> \/ (~force /\ At(b.t, p).key <= At(b.t, p).child_keys[1]) THEN b
    ELSE key_updated(b, p, At(b.t, p).child_keys[1],
                     index(At(b.t, Front(p)).child_keys, At(b.t, p).key))

\* a split that moves the last child only
split_off_one(r) ==
    <<remove_child_nocheck(r[1], Len(r[1].children) - 1),
      add_child_nocheck(r[2], r[1].children[Len(r[1].children)], 0)>>

\* the loops of TreeNode.add_child: the last children of self go to the
\* front of tn, r = <<self, tn>>
RECURSIVE split_off(_)
split_off(r) ==
    IF csize(r[1]) > csize(r[2])
    THEN split_off(<<remove_child_nocheck(r[1], Len(r[1].children) - 1),
                     add_child_nocheck(r[2], r[1].children[Len(r[1].children)], 0)>>)
    ELSE r

RECURSIVE move_all(_)
move_all(r) ==
    IF r[1].children # <<>>
    THEN move_all(<<remove_child_nocheck(r[1], Len(r[1].children) - 1),
                    add_child_nocheck(r[2], r[1].children[Len(r[1].children)], 0)>>)
    ELSE r

\* a new node filed under the key of its last child
with_last_key(tn) == [tn EXCEPT !.key = tn.child_keys[Len(tn.child_keys)]]

\* tn.key = tn.child_keys[0]
with_first_key(tn) == [tn EXCEPT !.key = tn.child_keys[1]]

\* a root that keeps its own children and files tn after them
root_split_flat(self, tn) == add_child_nocheck(self, tn, Len(self.children))

\* the root that was too big: its children go to tn2, tn2 and tn become its children
root_split(self, tn) ==
    add_child_nocheck(
        add_child_nocheck(move_all(<<self, TreeNode>>)[1],
                          with_first_key(move_all(<<self, TreeNode>>)[2]), 0),
        tn, 1)

\* TreeNode.add_child of the node at p
RECURSIVE add_child(_, _, _)
add_child_split(b, p, r) ==
    IF p # <<>>
    THEN add_child(BPut(b, p, r[1]), Front(p), with_first_key(r[2]))
    ELSE [b EXCEPT !.t = root_split(r[1], with_first_key(r[2]))]

add_child_sized(b, p) ==
    IF ~BOk(b) \/ csize(At(b.t, p)) <= maximum_size THEN b
    ELSE add_child_split(b, p, split_off(<<At(b.t, p), TreeNode>>))

add_child_at(b, p, c, idx) ==
    add_child_sized(
        IF idx = 0
        THEN _update_key_maybe(BPut(b, p, add_child_nocheck(At(b.t, p), c, idx)), p, FALSE)
        ELSE BPut(b, p, add_child_nocheck(At(b.t, p), c, idx)),
        p)

add_child(b, p, c) ==
    IF ~BOk(b) THEN b ELSE add_child_at(b, p, c, bisect(At(b.t, p).child_keys, c.key))

\* TreeNode.search_prev_or_eq: the path of the leaf, <<>> for None
RECURSIVE search_prev_or_eq(_, _)
search_below(n, k, i) ==
    IF n.children[i].leaf THEN <<i>>
    ELSE IF search_prev_or_eq(n.children[i], k) = <<>> THEN <<>>
    ELSE <<i>> \o search_prev_or_eq(n.children[i], k)

search_prev_or_eq(n, k) ==
    IF n.child_keys = <<>> THEN <<>>
    ELSE search_below(n, k, IF bisect(n.child_keys, k) > 0 THEN bisect(n.child_keys, k)
                            ELSE 1)

\* TreeNode.search
search(n, k) ==
    IF search_prev_or_eq(n, k) # <<>> /\ At(n, search_prev_or_eq(n, k)).key = k
    THEN search_prev_or_eq(n, k) ELSE <<>>

\* TreeNode.add_to_tree
add_to_tree_at(b, c, sc) ==
    IF sc # <<>>
    THEN IF At(b.t, sc).key = c.key THEN BRaise(b, "AssertionError")
         ELSE add_child(b, Front(sc), c)
    ELSE add_child(b, <<>>, c)

add_to_tree(b, c) == add_to_tree_at(b, c, search_prev_or_eq(b.t, c.key))

\* the position of the node at p among its parent's child_keys
own_index(b, p) == index(At(b.t, Front(p)).child_keys, At(b.t, p).key)

\* TreeNode.get_smaller_sib and get_larger_sib: the path of the sibling, <<>> for None
get_smaller_sib(b, p) ==
    IF p = <<>> \/ own_index(b, p) - 1 < 0 THEN <<>>
    ELSE Front(p) \o <<own_index(b, p)>>

get_larger_sib(b, p) ==
    IF p = <<>> \/ own_index(b, p) + 1 >= Len(At(b.t, Front(p)).children) THEN <<>>
    ELSE Front(p) \o <<own_index(b, p) + 2>>

\* the loop of _equalize: r = <<sib, self>>, idx is -1 (last) or 0 (first)
RECURSIVE equalized(_, _)
equalized(r, idx) ==
    IF csize(r[1]) >= csize(r[2]) /\ r[1].children # <<>>
    THEN equalized(
             <<remove_child_nocheck(r[1], IF idx = 0 THEN 0 ELSE Len(r[1].children) - 1),
               add_child_nocheck(r[2], r[1].children[IF idx = 0 THEN 1
                                                     ELSE Len(r[1].children)], NoIdx)>>,
             idx)
    ELSE r

_equalize_put(b, p, sib, r, idx) ==
    _update_key_maybe(BPut(BPut(b, sib, r[1]), p, r[2]),
                      IF idx = 0 THEN sib ELSE p, TRUE)

_equalize(b, p, sib, idx) ==
    IF sib = p THEN BRaise(b, "Hang")
    ELSE _equalize_put(b, p, sib, equalized(<<At(b.t, sib), At(b.t, p)>>, idx), idx)

\* the loop that empties self into sib: r = <<self, sib>>
RECURSIVE merged(_)
merged(r) ==
    IF r[1].children # <<>>
    THEN merged(<<remove_child_nocheck(r[1], 0),
                  add_child_nocheck(r[2], r[1].children[1], NoIdx)>>)
    ELSE r

\* TreeNode.remove_child of the node at p, c the child with key k
RECURSIVE remove_child(_, _, _)
merge_put(b, p, sib, r) ==
    remove_child(_update_key_maybe(BPut(BPut(b, p, r[1]), sib, r[2]), sib, FALSE),
                 Front(p), r[1].key)

merge_into(b, p, sib) ==
    IF sib = p THEN BRaise(b, "Hang")
    ELSE merge_put(b, p, sib, merged(<<At(b.t, p), At(b.t, sib)>>))

rebalance_with(b, p, sib, sib2) ==
    IF sib # <<>> /\ at_has_spares_size(At(b.t, sib)) THEN _equalize(b, p, sib, -1)
    ELSE IF sib2 # <<>> /\ at_has_spares_size(At(b.t, sib2)) THEN _equalize(b, p, sib2, 0)
    ELSE IF sib = <<>> /\ sib2 = <<>> THEN b
    ELSE merge_into(b, p, IF sib # <<>> THEN sib ELSE sib2)

rebalance(b, p) ==
    IF at_minimum_size(At(b.t, p)) THEN b
    ELSE IF p # <<>> /\ own_index(b, p) = NoIdx THEN BRaise(b, "ValueError")
    ELSE rebalance_with(b, p, get_smaller_sib(b, p), get_larger_sib(b, p))

remove_child(b, p, k) ==
    IF ~BOk(b) THEN b
    ELSE IF index(At(b.t, p).child_keys, k) = NoIdx THEN BRaise(b, "ValueError")
    ELSE rebalance(BPut(b, p, remove_child_nocheck(At(b.t, p),
                                                   index(At(b.t, p).child_keys, k))), p)

\* the sum of the children's csize in TreeNode.remove_from_tree
RECURSIVE children_csize(_)
children_csize(cs) == IF cs = <<>> THEN 0 ELSE csize(Head(cs)) + children_csize(Tail(cs))

\* the children of a removed child go to the root
RECURSIVE add_all(_, _)
add_all(n, cs) ==
    IF cs = <<>> THEN n ELSE add_all(add_child_nocheck(n, Head(cs), NoIdx), Tail(cs))

RECURSIVE collapse(_, _)
collapse(b, cs) ==
    IF cs = <<>> \/ ~BOk(b) THEN b
    ELSE IF index(b.t.child_keys, Head(cs).key) = NoIdx THEN BRaise(b, "ValueError")
    ELSE collapse([b EXCEPT !.t = add_all(remove_child_nocheck(
                                              b.t, index(b.t.child_keys, Head(cs).key)),
                                          Head(cs).children)],
                  Tail(cs))

\* remove_from_tree that leaves the root as remove_child left it
root_unchecked(b) == b

\* TreeNode.remove_from_tree
root_checked(b) ==
    IF ~BOk(b) \/ is_leafy(b.t) THEN b
    ELSE IF 4 * children_csize(b.t.children) >= maximum_size THEN b
    ELSE collapse(b, b.t.children)

remove_from_tree(b, k) ==
    IF search(b.t, k) = <<>> THEN BRaise(b, "AssertionError")
    ELSE root_checked(remove_child(b, Front(search(b.t, k)), k))

BDone(op, k, b) == [op |-> op, key |-> k, ok |-> BOk(b)]

CommitTree(op, k, b) ==
    /\ root' = b.t
    /\ present' = IF ~BOk(b) THEN present
                  ELSE IF op = "add" THEN present \cup {k} ELSE present \ {k}
    /\ blast' = BDone(op, k, b)
    /\ UNCHANGED <<svars, fvars, uvars, dvars, mvars, nvars>>

\* root.add_to_tree(LeafNode(name)) with a name not in the tree
AddToTree(k) ==
    /\ k \notin present
    /\ CommitTree("add", k, add_to_tree([t |-> root, err |-> "ok"], LeafNode(k)))

\* root.remove_from_tree(leaf) with a leaf of the tree
RemoveFromTree(k) ==
    /\ k \in present
    /\ CommitTree("remove", k, remove_from_tree([t |-> root, err |-> "ok"], k))

NextBtree ==
    \/ \E k \in BKeys: AddToTree(k)
    \/ \E k \in BKeys: RemoveFromTree(k)

SpecBtree == Init /\ [][NextBtree]_vars

\* every TreeNode of the tree under n, n included
RECURSIVE tree_nodes(_)
tree_nodes(n) ==
    {n} \cup UNION {tree_nodes(n.children[i]) :
                    i \in {j \in 1..Len(n.children) : ~n.children[j].leaf}}

\* TreeNode.get_leaves, as the sequence of the leaves' keys
RECURSIVE get_leaves(_)
get_leaves(n) ==
    IF n.leaf THEN <<n.key>>
    ELSE IF n.children = <<>> THEN <<>>
    ELSE get_leaves(n.children[1]) \o get_leaves([n EXCEPT !.children = Tail(@)])

\* C16: after any sequence of add_to_tree and remove_from_tree calls with
\* unique keys, every tree node has as many child_keys as children, its
\* child_keys strictly increase, and child_keys[i] is children[i].key.
C16_ChildKeysMatch ==
    \A n \in tree_nodes(root):
        /\ Len(n.child_keys) = Len(n.children)
        /\ \A i \in 1..(Len(n.child_keys) - 1): n.child_keys[i] < n.child_keys[i + 1]
        /\ \A i \in 1..Len(n.children): n.child_keys[i] = n.children[i].key

\* a split, a borrow from a sibling and a merge have each happened
C16_Witness ==
    /\ blast.op = "remove" /\ blast.ok
    /\ depth(root) = 2
    /\ Len(root.children) = 1
    /\ Cardinality(present) > maximum_size \div 4

\* C17: after any mutation, every tree node's key, the root's too, is
\* children[0].key, or null if the node has no children.
C17_KeyIsFirstChild ==
    \A n \in tree_nodes(root):
        n.key = IF n.children = <<>> THEN NoKey ELSE n.children[1].key

\* C17 as the code has it: the root has no key, and the key of every other
\* node is what its parent holds for it, a lower bound of its children's
\* keys that is exact after an insertion at the front.
C17_KeyIsLowerBound ==
    /\ root.key = NoKey
    /\ \A n \in tree_nodes(root) \ {root}:
           /\ n.children # <<>>
           /\ n.key # NoKey
           /\ n.key <= n.children[1].key

\* a node whose first child was removed keeps the key of that child
C17_Witness ==
    /\ blast.op = "remove" /\ blast.ok
    /\ \E n \in tree_nodes(root) \ {root}:
           n.children # <<>> /\ n.key < n.children[1].key

\* C18: search finds the leaf of every name in the tree and nothing for
\* every other name, whatever splits, borrows, merges and root collapses
\* happened in between.
C18_SearchFindsExactlyPresent ==
    \A k \in BKeys:
        IF k \in present
        THEN search(root, k) # <<>> /\ At(root, search(root, k)) = LeafNode(k)
        ELSE search(root, k) = <<>>

\* a leaf added under the second child of the root is found there, and a
\* larger name that is not in the tree is not found
C18_Witness ==
    /\ blast.op = "add" /\ blast.ok
    /\ search(root, blast.key) = <<2, 1>>
    /\ \E k \in BKeys \ present: k > blast.key

\* C19: removing the leaves of a tree never fails while the leaf is
\* present, and with the last leaf gone the root has no children and
\* depth 1.
C19_RemoveAllEmpties ==
    /\ blast.op = "remove" => blast.ok
    /\ present = {} => (root.children = <<>> /\ depth(root) = 1)

\* the last leaf is gone
C19_Witness ==
    /\ blast.op = "remove" /\ blast.ok
    /\ present = {}
    /\ root = TreeNode

\* ---------------------------------------------------------------------
\* forest.py, inode.py, forest_nodes.py: directories, their inodes and
\* Forest.flush.  The operators take and give the forest as a record d.

TheForest ==
    [entry |-> entry, ino |-> ino, tnode |-> tnode, dns |-> dns, blocks |-> blocks,
     cname |-> cname, calls |-> 0, rv |-> FALSE, cnt |-> 0, err |-> "ok",
     st |-> NoStore]

DOk(d) == d.err = "ok"

DRaise(d, e) == [d EXCEPT !.err = e]

\* the entries a directory can hold, and all that lies under a path
Kids(p) == {Append(p, n) : n \in DNames} \cap DPaths

Below(p) == {q \in DPaths : Len(q) > Len(p) /\ SubSeq(q, 1, Len(p)) = p}

without_kids(d, p) ==
    [d EXCEPT !.entry = [c \in DPaths |-> IF c \in Kids(p) THEN NoLeaf ELSE @[c]]]

\* NamedLeafNode.pickler: what the parent's block says of a leaf
pickled(d, c) ==
    [name |-> c[Len(c)], is_dir |-> d.entry[c].is_dir, foo |-> d.entry[c].foo,
     block_id |-> d.entry[c].block_id]

\* LoadedTreeNode.to_data; the block id is the hash of it
to_data(d, p) ==
    [none |-> FALSE, entries |-> {pickled(d, c) : c \in {k \in Kids(p) : d.entry[k].there}}]

\* storage.get_block_data_by_id: the entries of the block, none for None
get_block_data_by_id(d, bid) == IF bid \in d.blocks THEN bid.entries ELSE {}

\* LoadedTreeNode.pickled_child_list setter: the leaf a block holds for c
loaded_leaf(data, c) ==
    IF \E e \in data : e.name = c[Len(c)]
    THEN [there |-> TRUE, dirty |-> FALSE,
          is_dir |-> (CHOOSE e \in data : e.name = c[Len(c)]).is_dir,
          foo |-> (CHOOSE e \in data : e.name = c[Len(c)]).foo,
          block_id |-> (CHOOSE e \in data : e.name = c[Len(c)]).block_id]
    ELSE NoLeaf

\* LoadedTreeNode.load, as children and child_keys call it
load(d, p) ==
    IF d.tnode[p].loaded THEN d
    ELSE [d EXCEPT !.tnode[p].loaded = TRUE,
                   !.entry = [c \in DPaths |->
                                 IF c \in Kids(p)
                                 THEN loaded_leaf(get_block_data_by_id(d, d.tnode[p].block_id), c)
                                 ELSE @[c]]]

\* DirtyMixin.mark_dirty of the tree node of a directory, which has no
\* parent: LoadedTreeNode.mark_dirty_related puts it on dirty_node_set
node_mark_dirty(d, p) ==
    IF d.tnode[p].dirty THEN d
    ELSE [d EXCEPT !.tnode[p].dirty = TRUE, !.dns = @ \cup {p}]

\* DirtyMixin.mark_dirty of a leaf of a tree
leaf_mark_dirty(d, c) ==
    IF d.entry[c].dirty THEN d
    ELSE node_mark_dirty([d EXCEPT !.entry[c].dirty = TRUE], Front(c))

\* inode.leaf_node.mark_dirty(); a leaf taken out of its tree still has
\* the tree node as parent
inode_leaf_mark_dirty(d, c) ==
    IF d.ino[c].leaf_node = "linked" THEN leaf_mark_dirty(d, c)
    ELSE IF d.ino[c].leaf_node = "orphan" /\ ~d.ino[c].leaf_dirty
         THEN node_mark_dirty([d EXCEPT !.ino[c].leaf_dirty = TRUE], Front(c))
    ELSE d

\* INode.changed: a new st_mtime_ns on the direntry, for the root the
\* entry b'' of its own tree
changed(d, q) ==
    IF q = <<>> THEN node_mark_dirty(load(d, q), q) ELSE inode_leaf_mark_dirty(d, q)

\* INodeAllocator.add_inode, INode.__init__: the parent inode gets a reference
add_inode(d, p, nd) ==
    [d EXCEPT !.ino[p] = [there |-> TRUE, refcnt |-> 1, leaf_node |-> "linked",
                          leaf_dirty |-> FALSE],
              !.ino[Front(p)].refcnt = @ + 1,
              !.tnode[p] = nd]

\* Forest._create
created(d, p, is_dir) ==
    leaf_mark_dirty(
        IF is_dir THEN node_mark_dirty(d, p) ELSE d,
        p)

_create(d, p, is_dir) ==
    created(
        add_inode(
            node_mark_dirty(
                [load(d, Front(p)) EXCEPT
                     !.entry[p] = [there |-> TRUE, is_dir |-> is_dir, foo |-> 0,
                                   dirty |-> FALSE, block_id |-> NoBid]],
                Front(p)),
            p,
            IF is_dir THEN [NoTreeNode EXCEPT !.there = TRUE, !.loaded = TRUE]
            ELSE NoTreeNode),
        p, is_dir)

\* Forest.create_file and Forest.create_dir
create_file(d, p) == _create(changed(d, Front(p)), p, FALSE)

create_dir(d, p) == _create(changed(d, Front(p)), p, TRUE)

\* DataMixin.set_data('foo', v) of the leaf search_name gives
set_data(d, p, v) ==
    IF load(d, Front(p)).entry[p].foo = v THEN load(d, Front(p))
    ELSE leaf_mark_dirty([load(d, Front(p)) EXCEPT !.entry[p].foo = v], p)

\* Forest.unlink: remove_child takes the leaf out of the tree; its inode,
\* if it has one, keeps it as leaf_node
unlink(d, p) ==
    node_mark_dirty(
        [load(d, Front(p)) EXCEPT
             !.entry[p] = NoLeaf,
             !.ino[p] = IF @.there
                        THEN [@ EXCEPT !.leaf_node = "orphan",
                                       !.leaf_dirty = load(d, Front(p)).entry[p].dirty]
                        ELSE @],
        Front(p))

\* a lookup that makes an inode for the leaf whether it has one or not
looked_up_anew(d, p) ==
    add_inode(d, p, IF d.entry[p].is_dir
                    THEN [NoTreeNode EXCEPT !.there = TRUE,
                                            !.block_id = d.entry[p].block_id]
                    ELSE NoTreeNode)

\* Forest.lookup of a name that is there
looked_up(d, p) ==
    IF d.ino[p].there THEN [d EXCEPT !.ino[p].refcnt = @ + 1]
    ELSE add_inode(d, p, IF d.entry[p].is_dir
                         THEN [NoTreeNode EXCEPT !.there = TRUE,
                                                 !.block_id = d.entry[p].block_id]
                         ELSE NoTreeNode)

lookup(d, p) == looked_up(load(d, Front(p)), p)

\* INode.deref
deref(d, p) ==
    IF d.ino[p].refcnt < 1 THEN DRaise(d, "AssertionError")
    ELSE [d EXCEPT !.ino[p].refcnt = @ - 1]

\* Forest.flush, first stage: every dirty tree node dirties the leaf of its
\* inode, which dirties the tree node above
propagate_one(d, p) ==
    IF ~DOk(d) THEN d
    ELSE IF ~d.ino[p].there THEN DRaise(d, "KeyError")
    ELSE inode_leaf_mark_dirty(d, p)

RECURSIVE propagate(_, _)
propagate(d, cur) ==
    IF cur = {} THEN d
    ELSE propagate(propagate_one(d, CHOOSE p \in cur : TRUE),
                   cur \ {CHOOSE p \in cur : TRUE})

\* Forest.flush that forgets the first stage
propagate_nothing(d) == [d EXCEPT !.dns = {}]

RECURSIVE propagate_dirty(_)
propagate_dirty(d) ==
    IF d.dns = {} \/ ~DOk(d) THEN d
    ELSE propagate_dirty(propagate([d EXCEPT !.dns = {}], d.dns))

\* ---------------------------------------------------------------------
\* storage.py: the reference counts DelayedStorage keeps for the blocks of
\* the forest.  They are followed when d.st.on; refcnt has the blocks whose
\* refcnt is not None, fresh the blocks whose `stored` copy has refcnt None
\* (never written to the backend), dirty is _dirty_bid2block and zero is
\* referenced_refcnt0_block_ids.

\* Forest.inode_has_block_id: the tree node of some inode holds the block id
inode_has_block_id(d, bid) ==
    \E p \in DDirs : d.ino[p].there /\ d.tnode[p].there /\ d.tnode[p].block_id = bid

\* the block has a refcnt
known(d, bid) == bid \in DOMAIN d.st.refcnt

\* DelayedStorage.get_block_by_id(block_id) gives a block
got(d, bid) == (known(d, bid) /\ d.st.refcnt[bid] > 0) \/ inode_has_block_id(d, bid)

\* StoredBlock.mark_dirty_related, Storage.mark_block_dirty
mark_block_dirty(d, bid) ==
    IF bid \in d.st.dirty THEN d
    ELSE IF bid \in d.st.fresh THEN DRaise(d, "AssertionError")
    ELSE [d EXCEPT !.st.dirty = @ \cup {bid},
                   !.st.fresh = IF known(d, bid) THEN @ ELSE @ \cup {bid}]

\* StoredBlock.set_refcnt
d_set_refcnt(d, bid, n) ==
    IF ~DOk(mark_block_dirty(d, bid)) THEN mark_block_dirty(d, bid)
    ELSE [mark_block_dirty(d, bid) EXCEPT
              !.st.refcnt = [b \in DOMAIN @ \cup {bid} |-> IF b = bid THEN n ELSE @[b]]]

\* Storage.refer_block
d_refer_block(d, bid) ==
    IF ~d.st.on \/ ~DOk(d) THEN d
    ELSE IF ~got(d, bid) THEN DRaise(d, "AssertionError")
    ELSE IF ~known(d, bid) THEN DRaise(d, "TypeError")
    ELSE d_set_refcnt(d, bid, d.st.refcnt[bid] + 1)

\* Storage.release_block
d_release_block(d, bid) ==
    IF ~d.st.on \/ ~DOk(d) THEN d
    ELSE IF ~got(d, bid) THEN DRaise(d, "AssertionError")
    ELSE IF ~known(d, bid) THEN DRaise(d, "TypeError")
    ELSE IF d.st.refcnt[bid] = 0 THEN DRaise(d, "AssertionError")
    ELSE d_set_refcnt(d, bid, d.st.refcnt[bid] - 1)

\* `if block_id:` before refer_block and release_block
referred(d, bid) == IF bid = NoBid THEN d ELSE d_refer_block(d, bid)

released(d, bid) == IF bid = NoBid THEN d ELSE d_release_block(d, bid)

\* Storage.update_block_data_dependencies over the block ids that
\* any_node_block_data_references_callback yields for the entries es
RECURSIVE d_update_block_data_dependencies(_, _, _)
d_update_block_data_dependencies(d, es, is_add) ==
    IF es = {} \/ ~DOk(d) THEN d
    ELSE d_update_block_data_dependencies(
             IF is_add THEN referred(d, (CHOOSE e \in es : TRUE).block_id)
             ELSE released(d, (CHOOSE e \in es : TRUE).block_id),
             es \ {CHOOSE e \in es : TRUE}, is_add)

\* DelayedStorage.store_block
d_store_block(d, bid) ==
    IF known(d, bid) /\ d.st.refcnt[bid] > 0 THEN DRaise(d, "AssertionError")
    ELSE d_update_block_data_dependencies(d_set_refcnt(d, bid, 1), bid.entries, TRUE)

\* Storage.refer_or_store_block
d_refer_or_store_block(d, bid) ==
    IF ~d.st.on \/ ~DOk(d) THEN d
    ELSE IF got(d, bid) THEN d_refer_block([d EXCEPT !.st.zero = @ \ {bid}], bid)
    ELSE d_store_block([d EXCEPT !.st.zero = @ \ {bid}], bid)

\* Storage.set_block_name(block_id, b'content') without set_block_name_be
d_set_block_name(d, bid) ==
    IF d.cname = bid THEN d ELSE released(referred(d, bid), d.cname)

\* StoredBlock.perform_flush
d_perform_flush(d, bid) ==
    IF bid \in d.st.fresh
    THEN IF known(d, bid) /\ d.st.refcnt[bid] > 0
         THEN d_update_block_data_dependencies(
                  [d EXCEPT !.st.fresh = @ \ {bid}], bid.entries, TRUE)
         ELSE d
    ELSE d_update_block_data_dependencies(
             d_update_block_data_dependencies(d, bid.entries, TRUE),
             bid.entries, FALSE)

\* DelayedStorage._delete_cached_block after backend.delete_block
_delete_cached_block(d, bid) ==
    IF ~DOk(d) THEN d
    ELSE [(IF bid \in d.st.fresh
           THEN d_update_block_data_dependencies(d, bid.entries, FALSE)
           ELSE d)
          EXCEPT !.st.refcnt = [b \in DOMAIN @ \ {bid} |-> @[b]],
                 !.st.fresh = @ \ {bid}]

\* Storage.delete_block_id_with_deps
d_delete_block_id_with_deps(d, bid) ==
    _delete_cached_block(d_update_block_data_dependencies(d, bid.entries, FALSE), bid)

\* Storage.delete_block_id_if_no_extref
d_delete_block_id_if_no_extref(d, bid) ==
    IF ~DOk(d) THEN d
    ELSE IF inode_has_block_id(d, bid) THEN [d EXCEPT !.st.zero = @ \cup {bid}]
    ELSE d_delete_block_id_with_deps([d EXCEPT !.st.zero = @ \ {bid}], bid)

\* the blocks with `not block.refcnt`
unreferred(d, bid) == ~known(d, bid) \/ d.st.refcnt[bid] = 0

\* Storage.flush, the pass over referenced_refcnt0_block_ids
RECURSIVE flush_dangling_each(_, _)
flush_dangling_each(d, s) ==
    IF s = {} \/ ~DOk(d) THEN d
    ELSE flush_dangling_each(
             IF unreferred(d, CHOOSE b \in s : TRUE)
             THEN d_delete_block_id_if_no_extref(d, CHOOSE b \in s : TRUE)
             ELSE d,
             s \ {CHOOSE b \in s : TRUE})

RECURSIVE d_flush_dangling(_)
d_flush_dangling(d) ==
    IF d.st.zero = {} \/ ~DOk(d) THEN d
    ELSE LET after == flush_dangling_each([d EXCEPT !.st.zero = {}], d.st.zero)
         IN  IF DOMAIN after.st.refcnt = DOMAIN d.st.refcnt THEN after
             ELSE d_flush_dangling(after)

\* Storage.flush_dirty_store_blocks, one block
flushed_block(d, bid) ==
    IF ~DOk(d) THEN d
    ELSE IF unreferred(d, bid) THEN d_delete_block_id_if_no_extref(d, bid)
    ELSE d

\* Storage.flush_dirty_store_blocks
RECURSIVE d_flush_dirty_store_blocks(_)
d_flush_dirty_store_blocks(d) ==
    IF d.st.dirty = {} \/ ~DOk(d) THEN d
    ELSE d_flush_dirty_store_blocks(
             flushed_block(
                 d_perform_flush([d EXCEPT !.st.dirty = @ \ {CHOOSE b \in d.st.dirty : TRUE}],
                               CHOOSE b \in d.st.dirty : TRUE),
                 CHOOSE b \in d.st.dirty : TRUE))

\* DelayedStorage.flush with maximum_cache_size 0: the blocks left are the
\* blocks of the backend
counted_flush(d) ==
    LET after == d_flush_dirty_store_blocks(d_flush_dangling(d))
    IN  IF ~DOk(after) THEN after
        ELSE [after EXCEPT !.blocks = DOMAIN after.st.refcnt]

\* the calls of refer_block and release_block in NamedLeafNode.set_block_id
refers(bid) == IF bid # NoBid THEN 1 ELSE 0

\* NamedLeafNode.set_block_id
set_block_id(d, c, bid) ==
    IF d.entry[c].block_id = bid THEN d
    ELSE IF bid # NoBid /\ bid \notin d.blocks THEN DRaise(d, "AssertionError")
    ELSE [released(referred(d, bid), d.entry[c].block_id) EXCEPT
              !.entry[c].block_id = bid,
              !.calls = @ + refers(bid) + refers(d.entry[c].block_id)]

\* LoadedTreeNode.set_block
set_block(d, p, bid) ==
    IF bid = d.tnode[p].block_id THEN [d EXCEPT !.rv = FALSE]
    ELSE [released(d_refer_or_store_block(d, bid), d.tnode[p].block_id) EXCEPT
                   !.blocks = @ \cup {bid},
                   !.calls = @ + 1 + refers(d.tnode[p].block_id),
                   !.tnode[p].block_id = bid,
                   !.rv = TRUE]

\* DirtyMixin.flush and LoadedTreeNode.perform_flush of the tree node at p
RECURSIVE flush_node(_, _)

\* NamedLeafNode.perform_flush, after c.flush()
leaf_set_from_node(d, c) ==
    IF ~DOk(d) THEN d
    ELSE IF d.tnode[c].block_id = NoBid THEN DRaise(d, "AssertionError")
    ELSE set_block_id(d, c, d.tnode[c].block_id)

\* NamedLeafNode.perform_flush
leaf_perform_flush(d, c) ==
    IF d.ino[c].there /\ d.ino[c].leaf_node = "linked"
    THEN IF d.tnode[c].there THEN leaf_set_from_node(flush_node(d, c), c)
         ELSE set_block_id(d, c, NoBid)
    ELSE d

\* DirtyMixin.flush of a leaf
leaf_flush(d, c) ==
    IF ~DOk(d) \/ ~d.entry[c].dirty THEN d
    ELSE leaf_perform_flush([d EXCEPT !.entry[c].dirty = FALSE], c)

RECURSIVE flush_children(_, _)
flush_children(d, cs) ==
    IF cs = {} THEN d
    ELSE flush_children(leaf_flush(d, CHOOSE c \in cs : TRUE),
                        cs \ {CHOOSE c \in cs : TRUE})

stored_node(d, p) == IF ~DOk(d) THEN d ELSE set_block(d, p, to_data(d, p))

node_perform_flush(d, p) ==
    IF ~d.tnode[p].loaded THEN [d EXCEPT !.rv = FALSE]
    ELSE stored_node(flush_children(d, {c \in Kids(p) : d.entry[c].there}), p)

flush_node(d, p) ==
    IF ~DOk(d) THEN d
    ELSE IF ~d.tnode[p].dirty THEN [d EXCEPT !.rv = FALSE]
    ELSE node_perform_flush([d EXCEPT !.tnode[p].dirty = FALSE], p)

\* Forest.flush that names the root block whatever root.node.flush() returned
published_always(d) ==
    IF DOk(d)
    THEN [d_set_block_name(d, d.tnode[<<>>].block_id) EXCEPT
              !.cname = d.tnode[<<>>].block_id, !.calls = @ + 1]
    ELSE d

\* Forest.flush: storage.set_block_name if the root got a new block id
published(d) ==
    IF DOk(d) /\ d.rv
    THEN [d_set_block_name(d, d.tnode[<<>>].block_id) EXCEPT
              !.cname = d.tnode[<<>>].block_id, !.calls = @ + 1]
    ELSE d

\* INode.remove, and the `cnt += 1` of remove_old_inodes that follows it
remove(d, p) ==
    without_kids(
        [d EXCEPT !.ino[p] = NoINode,
                  !.ino[Front(p)].refcnt =
                      IF d.ino[p].leaf_node # "None" THEN @ - 1 ELSE @,
                  !.tnode[p] = NoTreeNode,
                  !.cnt = @ + 1],
        p)

\* INodeAllocator.inodes_waiting_to_remove
waiting(d) == {p \in DPaths : d.ino[p].there /\ d.ino[p].refcnt = 0}

\* remove_old_inodes without its outer loop: the inodes that wait when it
\* is called are removed, the parents they release wait for the next flush
RECURSIVE remove_each(_, _)
remove_each(d, ps) ==
    IF ps = {} THEN d
    ELSE remove_each(remove(d, CHOOSE p \in ps : TRUE), ps \ {CHOOSE p \in ps : TRUE})

remove_old_inodes_once(d) == IF ~DOk(d) THEN d ELSE remove_each(d, waiting(d))

\* INodeAllocator.remove_old_inodes
RECURSIVE remove_old_inodes(_)
remove_old_inodes(d) ==
    IF ~DOk(d) \/ waiting(d) = {} THEN d
    ELSE remove_old_inodes(remove(d, CHOOSE p \in waiting(d) : TRUE))

\* INodeAllocator.get_protected_set: the tree nodes above the leaf_node of
\* some inode
protected(d, p) == \E c \in Kids(p) : d.ino[c].there /\ d.ino[c].leaf_node # "None"

\* LoadedTreeNode.unload_if_possible and NamedLeafNode.unload_if_possible
RECURSIVE unload_if_possible(_, _)

RECURSIVE unload_children(_, _)
unload_children(d, cs) ==
    IF cs = {} THEN d
    ELSE unload_children(unload_if_possible(d, CHOOSE c \in cs : TRUE),
                         cs \ {CHOOSE c \in cs : TRUE})

unload_self(d, p) ==
    IF protected(d, p) THEN d ELSE without_kids([d EXCEPT !.tnode[p].loaded = FALSE], p)

unload_if_possible(d, p) ==
    IF ~d.tnode[p].loaded \/ d.tnode[p].dirty THEN d
    ELSE unload_self(
             unload_children(d, {c \in Kids(p) :
                                    /\ d.entry[c].there
                                    /\ d.ino[c].there /\ d.ino[c].leaf_node = "linked"
                                    /\ d.tnode[c].there}),
             p)

\* Forest.unload_nonprotected_nodes
unload_nonprotected_nodes(d) == IF ~DOk(d) THEN d ELSE unload_if_possible(d, <<>>)

\* the blocks a block refers to, itself included
RECURSIVE referred_blocks(_)
referred_blocks(bid) ==
    IF bid = NoBid THEN {}
    ELSE {bid} \cup UNION {referred_blocks(e.block_id) : e \in bid.entries}

\* the block ids with a referrer outside the storage: the name `content`,
\* and the tree nodes and entries in memory (Forest.inode_has_block_id)
held_block_ids(d) ==
    {d.cname} \cup {d.tnode[p].block_id : p \in {q \in DDirs : d.tnode[q].there}}
              \cup {d.entry[p].block_id : p \in {q \in DPaths : d.entry[q].there}}

\* storage.flush(): the blocks nothing refers to any more are deleted
storage_flush(d) ==
    IF ~DOk(d) THEN d
    ELSE IF d.st.on THEN counted_flush(d)
    ELSE [d EXCEPT !.blocks =
             {b \in @ : \E h \in held_block_ids(d) : b \in referred_blocks(h)}]

\* Forest.flush
flush(d) ==
    unload_nonprotected_nodes(
        remove_old_inodes(
            storage_flush(published(flush_node(propagate_dirty(d), <<>>)))))

DDone(op, d) ==
    [op |-> op, ok |-> DOk(d), rv |-> d.rv, calls |-> d.calls, cnt |-> d.cnt]

CommitForest(op, d) ==
    /\ entry' = d.entry
    /\ ino' = d.ino
    /\ tnode' = d.tnode
    /\ dns' = d.dns
    /\ blocks' = d.blocks
    /\ cname' = d.cname
    /\ dlast' = DDone(op, d)
    /\ UNCHANGED <<svars, fvars, uvars, bvars, mvars, nvars>>

\* q is a directory of the forest and the caller can name its inode
Reachable(q) ==
    ino[q].there /\ tnode[q].there /\ (IF q = <<>> THEN TRUE ELSE want[q].there)

\* Forest.create_file(dir_inode, name) of a name the directory has not
CreateFile(p) ==
    /\ Reachable(Front(p))
    /\ ~ino[p].there
    /\ ~load(TheForest, Front(p)).entry[p].there
    /\ CommitForest("create_file", create_file(TheForest, p))
    /\ user_refs' = [user_refs EXCEPT ![p] = 1]
    /\ want' = [want EXCEPT ![p] = [there |-> TRUE, is_dir |-> FALSE, foo |-> 0]]

\* Forest.create_dir(dir_inode, name) of a name the directory has not
CreateDir(p) ==
    /\ Reachable(Front(p))
    /\ ~ino[p].there
    /\ ~load(TheForest, Front(p)).entry[p].there
    /\ CommitForest("create_dir", create_dir(TheForest, p))
    /\ user_refs' = [user_refs EXCEPT ![p] = 1]
    /\ want' = [want EXCEPT ![p] = [there |-> TRUE, is_dir |-> TRUE, foo |-> 0]]

\* dir_inode.node.search_name(name).set_data('foo', v)
SetData(p, v) ==
    /\ Reachable(Front(p))
    /\ load(TheForest, Front(p)).entry[p].there
    /\ CommitForest("set_data", set_data(TheForest, p, v))
    /\ want' = [want EXCEPT ![p].foo = v]
    /\ UNCHANGED user_refs

\* Forest.unlink(dir_inode, name) of a name the directory has
ForestUnlink(p) ==
    /\ Reachable(Front(p))
    /\ load(TheForest, Front(p)).entry[p].there
    /\ CommitForest("unlink", unlink(TheForest, p))
    /\ want' = [q \in DPaths |-> IF q = p \/ q \in Below(p) THEN NoWant ELSE want[q]]
    /\ UNCHANGED user_refs

\* Forest.lookup(dir_inode, name) of a name the directory has, by a caller
\* that holds no reference on the inode yet
Lookup(p) ==
    /\ Reachable(Front(p))
    /\ user_refs[p] = 0
    /\ ino[p].there => ino[p].leaf_node = "linked"
    /\ load(TheForest, Front(p)).entry[p].there
    /\ CommitForest("lookup", lookup(TheForest, p))
    /\ user_refs' = [user_refs EXCEPT ![p] = 1]
    /\ UNCHANGED want

\* inode.deref() by the caller that holds the reference
Deref(p) ==
    /\ user_refs[p] = 1
    /\ CommitForest("deref", deref(TheForest, p))
    /\ user_refs' = [user_refs EXCEPT ![p] = 0]
    /\ UNCHANGED want

\* Forest.flush()
DirFlush ==
    /\ CommitForest("flush", flush(TheForest))
    /\ UNCHANGED <<user_refs, want>>

NextDir ==
    \/ \E p \in DPaths : CreateFile(p)
    \/ \E p \in DPaths : CreateDir(p)
    \/ \E p \in DPaths, v \in 1..MaxFoo : SetData(p, v)
    \/ \E p \in DPaths : ForestUnlink(p)
    \/ \E p \in DPaths : Lookup(p)
    \/ \E p \in DPaths : Deref(p)
    \/ DirFlush

SpecDir == Init /\ [][NextDir]_vars

\* what Forest.lookup finds, level by level, in a forest opened on the
\* storage: the entries of the block `content` names and of the blocks of
\* its directories
RECURSIVE stored_entries(_, _)
stored_entries(bid, prefix) ==
    UNION {{[path |-> Append(prefix, e.name), is_dir |-> e.is_dir, foo |-> e.foo]}
           \cup (IF e.is_dir THEN stored_entries(e.block_id, Append(prefix, e.name))
                 ELSE {})
           : e \in (IF bid \in blocks THEN bid.entries ELSE {})}

ReopenedForest == stored_entries(cname, <<>>)

Wanted ==
    {[path |-> p, is_dir |-> want[p].is_dir, foo |-> want[p].foo] :
     p \in {q \in DPaths : want[q].there}}

C14_SecondFlushNoop ==
    [][(dlast.op = "flush" /\ dlast.ok /\ dlast'.op = "flush") =>
           /\ dlast'.ok
           /\ ~dlast'.rv
           /\ dlast'.calls = 0
           /\ tnode'[<<>>].block_id = tnode[<<>>].block_id
           /\ cname' = cname]_vars

\* two flushes in a row, the first of which had a tree to store after an
\* unlink
C14_Witness ==
    /\ dlast.op = "flush" /\ dlast.ok /\ ~dlast.rv /\ dlast.calls = 0
    /\ cname # NoBid
    /\ \E p \in DPaths : want[p].there /\ want[p].is_dir
    /\ \E p \in DPaths : ~want[p].there /\ ino[p].there

\* ---------------------------------------------------------------------
\* Operations.unlink on the forest: the entry leaves the tree and its inode
\* loses its leaf_node.

\* the largest refcount an inode reaches before Operations.unlink is held back
MaxInodeRefcnt == 4

\* INode.set_leaf_node(None): the old leaf is marked dirty, which marks the
\* tree node it still has as parent, and gives up its block id; the entries
\* unlinked here are files, whose leaves have no block id
inode_set_leaf_node(d, p) ==
    [node_mark_dirty(d, Front(p)) EXCEPT !.ino[p].leaf_node = "None",
                                         !.ino[p].leaf_dirty = FALSE]

\* Operations.unlink: _lookup, remove_from_tree, set_leaf_node(None),
\* the parent's changed2 and the deref of the looked-up inode
ops_unlink(d, p) ==
    deref(changed(inode_set_leaf_node(unlink(lookup(d, p), p), p), Front(p)), p)

\* Operations.unlink(parent_inode, name) of a file the directory has
OpsUnlink(p) ==
    /\ Reachable(Front(p))
    /\ want[p].there /\ ~want[p].is_dir
    /\ ino[Front(p)].refcnt < MaxInodeRefcnt
    /\ CommitForest("ops_unlink", ops_unlink(TheForest, p))
    /\ want' = [want EXCEPT ![p] = NoWant]
    /\ UNCHANGED user_refs

NextInode ==
    \/ \E p \in DPaths : CreateFile(p)
    \/ \E p \in DPaths : CreateDir(p)
    \/ \E p \in DPaths : Lookup(p)
    \/ \E p \in DPaths : Deref(p)
    \/ \E p \in DPaths : OpsUnlink(p)
    \/ DirFlush

SpecInode == Init /\ [][NextInode]_vars

\* the inodes that took a reference on the inode of q when they were made
\* and are not removed yet
child_inodes(q) == {c \in Kids(q) : ino[c].there}

\* C15: the refcount of every inode is the references its callers hold, one
\* for the forest on the root, and one for each inode made under it that is
\* not removed yet: a removed inode has given its reference on the parent
\* back, also when its entry was unlinked in between, so that after the last
\* forget and a flush every refcount is what it was
C15_ParentReferenceReturned ==
    \A q \in DDirs :
        ino[q].there =>
            ino[q].refcnt = (IF q = <<>> THEN 1 ELSE user_refs[q])
                            + Cardinality(child_inodes(q))

\* ---------------------------------------------------------------------
\* Forest.merge3 over the root directories of the three forests.

MOk(m) == m.err = "ok"

\* DirectoryEntry.is_same: the same block id and the same pickled data
is_same(l, o) == l = o

\* DirectoryEntry.is_newer_than
is_newer_than(l, o) == l.mtime > o.mtime

\* DirtyMixin.mark_dirty of the root tree node of a forest
tree_mark_dirty(f) == IF f.dirty THEN f ELSE [f EXCEPT !.dirty = TRUE, !.dns = TRUE]

\* Forest.unlink(inode, name) on the root directory; `inodes` holds the
\* names of the entries of the tree that have an inode
forest_unlink(f, n) ==
    tree_mark_dirty([f EXCEPT !.tree[n] = NoDirEntry, !.inodes = @ \ {n}])

\* the root's add_node_to_tree of a leaf
forest_add(f, n, l) == tree_mark_dirty([f EXCEPT !.tree[n] = l])

\* _handle(l, None)
handle_removed(m, n) == [m EXCEPT !.local = forest_unlink(@, n)]

\* _handle(l, nl): after the unlink, l.set_forest_rec(None) fails its assert
handle_replaced(m, n) == [handle_removed(m, n) EXCEPT !.err = "AssertionError"]

\* _handle(None, nl): the leaf is taken out of the remote tree and put into
\* the local one
handle_added(m, n) ==
    [m EXCEPT !.new_f = forest_unlink(@, n),
              !.local = forest_add(@, n, m.new_f.tree[n])]

\* two directories that differ: self.lookup makes the local inode, the
\* lookup through new_inode.store fails, and the finally clause derefs in1
\* and raises on in2
recursed(m, n) ==
    [m EXCEPT !.local.inodes = @ \cup {n}, !.err = "UnboundLocalError"]

left_alone(m) == [m EXCEPT !.delta = @ + 1]

\* a first loop that deletes whatever the remote side removed, newer or not
first_step_trusting(m, l, n) ==
    IF ~MOk(m) THEN m
    ELSE IF ~m.new_f.tree[n].there
    THEN IF m.old_f.there /\ m.old_f.tree[n].there
         THEN handle_removed(m, n)
         ELSE left_alone(m)
    ELSE IF is_same(l, m.new_f.tree[n]) THEN m
    ELSE IF l.is_dir /\ m.new_f.tree[n].is_dir THEN recursed(m, n)
    ELSE IF is_newer_than(m.new_f.tree[n], l) THEN handle_replaced(m, n)
    ELSE left_alone(m)

\* merge3_dir_inode, first loop, for the leaf l the local tree had under n
first_step(m, l, n) ==
    IF ~MOk(m) THEN m
    ELSE IF ~m.new_f.tree[n].there
    THEN IF m.old_f.there /\ m.old_f.tree[n].there /\ ~is_newer_than(l, m.old_f.tree[n])
         THEN handle_removed(m, n)
         ELSE left_alone(m)
    ELSE IF is_same(l, m.new_f.tree[n]) THEN m
    ELSE IF l.is_dir /\ m.new_f.tree[n].is_dir THEN recursed(m, n)
    ELSE IF is_newer_than(m.new_f.tree[n], l) THEN handle_replaced(m, n)
    ELSE left_alone(m)

RECURSIVE first_loop(_, _, _)
first_loop(m, leaves0, i) ==
    IF i > Len(MNameSeq) THEN m
    ELSE first_loop(IF leaves0[MNameSeq[i]].there
                    THEN first_step(m, leaves0[MNameSeq[i]], MNameSeq[i])
                    ELSE m,
                    leaves0, i + 1)

\* a second loop that takes every leaf the first loop has not seen
second_step_adopting(m, seen, n) ==
    IF ~MOk(m) \/ n \in seen THEN m ELSE handle_added(m, n)

\* merge3_dir_inode, second loop, for a leaf of the remote tree
second_step(m, seen, n) ==
    IF ~MOk(m) \/ n \in seen THEN m
    ELSE IF m.old_f.there /\ m.old_f.tree[n].there THEN left_alone(m)
    ELSE handle_added(m, n)

RECURSIVE second_loop(_, _, _, _)
second_loop(m, leaves0, seen, i) ==
    IF i > Len(MNameSeq) THEN m
    ELSE second_loop(IF leaves0[MNameSeq[i]].there
                     THEN second_step(m, seen, MNameSeq[i])
                     ELSE m,
                     leaves0, seen, i + 1)

\* INode.direntry of a root inode: the entry b'' is made if the tree lacks it
direntry(f) ==
    IF f.tree[""].there THEN f ELSE forest_add(f, "", DirEntry(TRUE, 0))

\* the remote tree node is taken over: new_inode.set_node(None), then
\* node.set_forest_rec(inode.store) fails on the INodeAllocator it is given
replaced_from_remote(m) == [m EXCEPT !.new_f.node = FALSE, !.err = "AttributeError"]

\* merge3_dir_inode, after the loops, with the direntries of both roots
merged_direntry(m) ==
    IF is_same(m.local.tree[""], m.new_f.tree[""]) THEN m
    ELSE IF is_newer_than(m.new_f.tree[""], m.local.tree[""]) THEN replaced_from_remote(m)
    ELSE left_alone(m)

last_step(m) ==
    IF ~MOk(m) \/ m.delta # 0 THEN m
    ELSE merged_direntry([m EXCEPT !.local = direntry(@), !.new_f = direntry(@)])

second_loops(m, seen) == second_loop(m, m.new_f.tree, seen, 1)

\* Forest.merge3_dir_inode(self.root, new_other.root, old_other.root)
merge3_dir_inode(m) ==
    last_step(
        second_loops(first_loop(m, m.local.tree, 1),
                     {n \in MNames : m.local.tree[n].there}))

\* Forest.merge3(new_other, old_other)
merge3(local, new_other, old_other, store) ==
    merge3_dir_inode([local |-> local, new_f |-> new_other, old_f |-> old_other,
                      store |-> store, delta |-> 0, err |-> "ok"])

\* storage.set_block_name(new_id, old_other_name)
merge_named(m) ==
    IF MOk(m) THEN [m EXCEPT !.store["remote_old"] = m.store["remote"]] ELSE m

merge_nothing(local, store) ==
    [local |-> local, new_f |-> OpenForest(store, "remote"), old_f |-> NoForest,
     store |-> store, delta |-> 0, err |-> "ok"]

\* Forest.merge_remote(b'remote', b'remote_old')
merge_remote(local, store) ==
    IF ~store["remote"].named
    THEN [merge_nothing(local, store) EXCEPT !.new_f = NoForest, !.err = "AssertionError"]
    ELSE IF store["remote"] = store["remote_old"] THEN merge_nothing(local, store)
    ELSE merge_named(
             merge3(local, OpenForest(store, "remote"),
                    IF store["remote_old"].named THEN OpenForest(store, "remote_old")
                    ELSE NoForest,
                    store))

MDone(op, m) == [op |-> op, ok |-> MOk(m), delta |-> m.delta]

\* the forests a merge was given are those of the last merge only
Dropped ==
    /\ new_f' = NoForest
    /\ old_f' = NoForest
    /\ mbefore' = [local |-> NoForest, new_f |-> NoForest, old_f |-> NoForest, mstore |-> mstore']

CommitMerge(op, m, new_other, old_other) ==
    /\ mlocal' = m.local
    /\ new_f' = m.new_f
    /\ old_f' = m.old_f
    /\ mstore' = m.store
    /\ mbefore' = [local |-> mlocal, new_f |-> new_other, old_f |-> old_other,
                   mstore |-> mstore]
    /\ mlast' = MDone(op, m)
    /\ UNCHANGED <<svars, fvars, uvars, bvars, dvars, nvars>>

\* the tree after Forest.create_file or create_dir of name n at time t:
\* INode.changed stamps the root's own entry, _create the new one
created_at(tree, n, is_dir, t) ==
    [tree EXCEPT ![""] = DirEntry(TRUE, t), ![n] = DirEntry(is_dir, t)]

\* NamedLeafNode.perform_flush of the entries: the entry of a directory gets
\* the block id of the directory's tree, the root's own entry has no inode
entries_flushed(tree) ==
    [n \in MNames |-> IF n # "" /\ tree[n].there /\ tree[n].is_dir
                      THEN [tree[n] EXCEPT !.stored = TRUE] ELSE tree[n]]

\* the local forest: Forest.create_file or Forest.create_dir in the root
LocalCreate(n, is_dir, t) ==
    /\ n # "" /\ ~mlocal.tree[n].there
    /\ mlocal' = tree_mark_dirty([mlocal EXCEPT !.tree = created_at(@, n, is_dir, t),
                                                !.inodes = @ \cup {n}])
    /\ mlast' = [op |-> "create", ok |-> TRUE, delta |-> 0]
    /\ UNCHANGED <<svars, fvars, uvars, bvars, dvars, nvars, mstore>>
    /\ Dropped

\* the local forest: Forest.flush
LocalFlush ==
    /\ mstore' = IF mlocal.dirty
                 THEN [mstore EXCEPT !["content"] = [named |-> TRUE, tree |-> entries_flushed(mlocal.tree)]]
                 ELSE mstore
    /\ mlocal' = [mlocal EXCEPT !.tree = IF mlocal.dirty THEN entries_flushed(@) ELSE @,
                                !.dirty = FALSE, !.dns = FALSE, !.inodes = {}]
    /\ mlast' = [op |-> "flush", ok |-> TRUE, delta |-> 0]
    /\ UNCHANGED <<svars, fvars, uvars, bvars, dvars, nvars>>
    /\ Dropped

\* another holder of the storage, with a Forest on the name `remote`:
\* create_file or create_dir in the root, then flush
RemoteCreate(n, is_dir, t) ==
    /\ n # "" /\ ~mstore["remote"].tree[n].there
    /\ mstore' = [mstore EXCEPT !["remote"] =
                     [named |-> TRUE, tree |-> entries_flushed(created_at(@.tree, n, is_dir, t))]]
    /\ mlast' = [op |-> "remote_create", ok |-> TRUE, delta |-> 0]
    /\ UNCHANGED <<svars, fvars, uvars, bvars, dvars, nvars, mlocal>>
    /\ Dropped

\* the same holder: unlink of an entry of the root, then flush
RemoteUnlink(n) ==
    /\ n # "" /\ mstore["remote"].tree[n].there
    /\ mstore' = [mstore EXCEPT !["remote"].tree[n] = NoDirEntry]
    /\ mlast' = [op |-> "remote_unlink", ok |-> TRUE, delta |-> 0]
    /\ UNCHANGED <<svars, fvars, uvars, bvars, dvars, nvars, mlocal>>
    /\ Dropped

\* f.merge3(new_other) and f.merge3(new_other, old_other) with forests the
\* caller opened on the names `remote` and `remote_old`
Merge3(with_old) ==
    /\ with_old => mstore["remote_old"].named
    /\ CommitMerge("merge3",
                   merge3(mlocal, OpenForest(mstore, "remote"),
                          IF with_old THEN OpenForest(mstore, "remote_old") ELSE NoForest,
                          mstore),
                   OpenForest(mstore, "remote"),
                   IF with_old THEN OpenForest(mstore, "remote_old") ELSE NoForest)

\* f.merge_remote(b'remote', b'remote_old')
MergeRemote ==
    CommitMerge("merge_remote", merge_remote(mlocal, mstore),
                IF mstore["remote"].named THEN OpenForest(mstore, "remote") ELSE NoForest,
                IF mstore["remote"].named /\ mstore["remote"] # mstore["remote_old"]
                   /\ mstore["remote_old"].named
                THEN OpenForest(mstore, "remote_old") ELSE NoForest)

NextMerge ==
    \/ \E n \in MNames, is_dir \in BOOLEAN, t \in 1..MaxTime : LocalCreate(n, is_dir, t)
    \/ LocalFlush
    \/ \E n \in MNames, is_dir \in BOOLEAN, t \in 1..MaxTime : RemoteCreate(n, is_dir, t)
    \/ \E n \in MNames : RemoteUnlink(n)
    \/ \E with_old \in BOOLEAN : Merge3(with_old)
    \/ MergeRemote

SpecMerge == Init /\ [][NextMerge]_vars

\* C20: after merge3 and after merge_remote the forests of the remote and of
\* the ancestor name are as the merge found them (trees, inodes, dirty
\* state), and so is what the storage holds under the two names
C20_MergeChangesLocalOnly ==
    mlast.op \in {"merge3", "merge_remote"} =>
        /\ new_f = mbefore.new_f
        /\ old_f = mbefore.old_f
        /\ mstore["remote"] = mbefore.mstore["remote"]
        /\ mstore["remote_old"] = mbefore.mstore["remote_old"]

\* C21: when the local forest is where the ancestor name is (nothing changed
\* locally since the last merge) and the remote forest has diverged from it,
\* merge_remote succeeds and leaves the local root directory with the
\* entries of the remote one
C21_MergeConverges ==
    (/\ mlast.op = "merge_remote"
     /\ mbefore.mstore["remote_old"].named
     /\ mbefore.mstore["remote"].named
     /\ ~mbefore.local.dirty
     /\ mbefore.local.tree = mbefore.mstore["remote_old"].tree)
    => /\ mlast.ok
       /\ mlocal.tree = mbefore.mstore["remote"].tree

\* ---------------------------------------------------------------------
\* Operations.  The operators take and give a record s: the inode table,
\* the error raised, the inodes whose direntry got a new time stamp, and
\* the inode the last _lookup gave (0: none).

TheOps == [node |-> onode, err |-> "ok", stamped |-> {}, got |-> 0]

SOk(s) == s.err = "ok"

SRaise(s, e) == [s EXCEPT !.err = e]

\* the FUSEError codes of assert_or_errno
Errnos == {"EPERM", "EEXIST", "ENOENT", "ENOTEMPTY", "ENOATTR"}

\* node.search_name(name) in the tree of directory pn, as the inode of the leaf
o_entry(t, pn, name) ==
    IF \E i \in OIno : t[i].there /\ t[i].in_tree /\ t[i].parent = pn /\ t[i].name = name
    THEN CHOOSE i \in OIno :
             t[i].there /\ t[i].in_tree /\ t[i].parent = pn /\ t[i].name = name
    ELSE 0

\* n.node.children of a directory
o_children(t, n) == {i \in OIno : t[i].there /\ t[i].in_tree /\ t[i].parent = n}

\* Operations.access, _de_access: root may do anything, the root directory
\* has mode 0o777, a shared directory 0o1777, every other entry is open to
\* its owner only
access(t, i, uid) == uid = 0 \/ i = ORoot \/ t[i].shared \/ t[i].uid = uid

\* Operations._ctx_sticky_mutate_check
sticky_ok(t, uid, pn, n) ==
    ~t[pn].shared \/ uid = t[pn].uid \/ uid = t[n].uid \/ uid = 0

\* INode.ref and INode.deref
o_ref(s, i) == [s EXCEPT !.node[i].refcnt = @ + 1]

o_deref(s, i) ==
    IF s.node[i].refcnt < 1 THEN SRaise(s, "AssertionError")
    ELSE [s EXCEPT !.node[i].refcnt = @ - 1]

\* INode.changed2 and changed_mtime: st_mtime_ns of the direntry
o_changed(s, i) == [s EXCEPT !.stamped = @ \cup {i}]

\* Operations._lookup(parent_inode, name, ctx)
o_lookup(s, pn, name, uid) ==
    IF ~SOk(s) THEN s
    ELSE IF ~access(s.node, pn, uid) THEN SRaise(s, "EPERM")
    ELSE IF o_entry(s.node, pn, name) = 0 THEN [s EXCEPT !.got = 0]
    ELSE [o_ref(s, o_entry(s.node, pn, name)) EXCEPT !.got = o_entry(s.node, pn, name)]

\* Operations.unlink, the try block once the entry is found
unlink_found(s, pn, n, uid, allow_any) ==
    IF ~sticky_ok(s.node, uid, pn, n) THEN SRaise(s, "EPERM")
    ELSE IF ~allow_any /\ s.node[n].is_dir THEN SRaise(s, "EPERM")
    ELSE o_changed([s EXCEPT !.node[n].in_tree = FALSE, !.node[n].parent = 0,
                             !.node[n].name = ""],
                   pn)

\* Operations.unlink(parent_inode, name, ctx, allow_any)
facade_unlink(s, pn, name, uid, allow_any) ==
    IF ~SOk(s) THEN s
    ELSE IF ~access(s.node, pn, uid) THEN SRaise(s, "EPERM")
    ELSE IF ~SOk(o_lookup(s, pn, name, uid)) THEN o_lookup(s, pn, name, uid)
    ELSE IF o_lookup(s, pn, name, uid).got = 0 THEN SRaise(s, "ENOENT")
    ELSE o_deref(unlink_found(o_lookup(s, pn, name, uid), pn,
                              o_lookup(s, pn, name, uid).got, uid, allow_any),
                 o_lookup(s, pn, name, uid).got)

\* Operations.rmdir, the try block once the entry is found: the leaf leaves
\* the tree, the inode keeps it as leaf_node
rmdir_found(s, pn, n, uid) ==
    IF ~s.node[n].is_dir THEN SRaise(s, "ENOENT")
    ELSE IF ~sticky_ok(s.node, uid, pn, n) THEN SRaise(s, "EPERM")
    ELSE IF o_children(s.node, n) # {} THEN SRaise(s, "ENOTEMPTY")
    ELSE o_changed([s EXCEPT !.node[n].in_tree = FALSE], pn)

\* Operations.rmdir(parent_inode, name, ctx)
facade_rmdir(s, pn, name, uid) ==
    IF ~SOk(s) THEN s
    ELSE IF ~access(s.node, pn, uid) THEN SRaise(s, "EPERM")
    ELSE IF ~SOk(o_lookup(s, pn, name, uid)) THEN o_lookup(s, pn, name, uid)
    ELSE IF o_lookup(s, pn, name, uid).got = 0 THEN SRaise(s, "ENOENT")
    ELSE o_deref(rmdir_found(o_lookup(s, pn, name, uid), pn,
                             o_lookup(s, pn, name, uid).got, uid),
                 o_lookup(s, pn, name, uid).got)

\* Operations.link once _lookup(..., noref=True) has found nothing
linked(s, i, pn, name) ==
    o_changed([s EXCEPT !.node[i].parent = pn, !.node[i].name = name,
                        !.node[i].in_tree = TRUE],
              i)

\* _lookup(pn, new_name, ctx, noref=True)
o_lookup_noref(s, pn, name, uid) ==
    IF SOk(o_lookup(s, pn, name, uid)) /\ o_lookup(s, pn, name, uid).got # 0
    THEN o_deref(o_lookup(s, pn, name, uid), o_lookup(s, pn, name, uid).got)
    ELSE o_lookup(s, pn, name, uid)

\* Operations.link(inode, new_parent_inode, new_name, ctx)
facade_link(s, i, pn, name, uid) ==
    IF ~SOk(s) THEN s
    ELSE IF ~access(s.node, pn, uid) THEN SRaise(s, "EPERM")
    ELSE IF s.node[i].parent # 0 THEN SRaise(s, "EEXIST")
    ELSE IF ~SOk(o_lookup_noref(s, pn, name, uid)) THEN o_lookup_noref(s, pn, name, uid)
    ELSE IF o_lookup_noref(s, pn, name, uid).got # 0 THEN SRaise(s, "EEXIST")
    ELSE linked(s, i, pn, name)

\* Operations.rename: n2 = self._lookup(parent_inode_new, name_new, ctx), the
\* copy of the old data, n2.deref()
relooked(s, pn, name, uid) ==
    IF ~SOk(o_lookup(s, pn, name, uid)) THEN o_lookup(s, pn, name, uid)
    ELSE IF o_lookup(s, pn, name, uid).got = 0 THEN SRaise(s, "AssertionError")
    ELSE o_deref(o_lookup(s, pn, name, uid), o_lookup(s, pn, name, uid).got)

\* Operations.rename, the try block and its finally clause
rename_moved(s, n, pold, nold, pnew, nnew, uid) ==
    o_deref(relooked(facade_link(facade_unlink(s, pold, nold, uid, TRUE),
                                 n, pnew, nnew, uid),
                     pnew, nnew, uid),
            n)

\* old_data = n.direntry.data: INode.direntry of an inode without a
\* leaf_node and without a tree node asserts
rename_with_data(s, n, pold, nold, pnew, nnew, uid) ==
    IF ~SOk(s) THEN s
    ELSE IF s.node[n].parent = 0 THEN SRaise(s, "AssertionError")
    ELSE rename_moved(s, n, pold, nold, pnew, nnew, uid)

\* Operations.rename: the entry under the new name goes first
target_killed(s, n1, pnew, nnew, uid) ==
    IF n1 = 0 THEN s
    ELSE IF SOk(IF s.node[n1].is_dir THEN facade_rmdir(s, pnew, nnew, uid)
                ELSE facade_unlink(s, pnew, nnew, uid, FALSE))
    THEN o_deref(IF s.node[n1].is_dir THEN facade_rmdir(s, pnew, nnew, uid)
                 ELSE facade_unlink(s, pnew, nnew, uid, FALSE),
                 n1)
    ELSE IF s.node[n1].is_dir THEN facade_rmdir(s, pnew, nnew, uid)
    ELSE facade_unlink(s, pnew, nnew, uid, FALSE)

\* Operations.rename once the old entry is found
rename_found(s, n, pold, nold, pnew, nnew, uid) ==
    IF ~sticky_ok(s.node, uid, pold, n) \/ ~sticky_ok(s.node, uid, pnew, n)
    THEN SRaise(s, "EPERM")
    ELSE IF ~SOk(o_lookup(s, pnew, nnew, uid)) THEN o_lookup(s, pnew, nnew, uid)
    ELSE rename_with_data(
             target_killed(o_lookup(s, pnew, nnew, uid),
                           o_lookup(s, pnew, nnew, uid).got, pnew, nnew, uid),
             n, pold, nold, pnew, nnew, uid)

\* Operations.rename(parent_inode_old, name_old, parent_inode_new, name_new, ctx)
facade_rename(s, pold, nold, pnew, nnew, uid) ==
    IF ~access(s.node, pold, uid) \/ ~access(s.node, pnew, uid) THEN SRaise(s, "EPERM")
    ELSE IF ~SOk(o_lookup(s, pold, nold, uid)) THEN o_lookup(s, pold, nold, uid)
    ELSE IF o_lookup(s, pold, nold, uid).got = 0 THEN SRaise(s, "ENOENT")
    ELSE rename_found(o_lookup(s, pold, nold, uid), o_lookup(s, pold, nold, uid).got,
                      pold, nold, pnew, nnew, uid)

\* the number the allocator gives the next inode
o_free(t) == CHOOSE i \in OIno : ~t[i].there /\ \A j \in OIno : ~t[j].there => i <= j

\* Forest._create under pn, and Operations._set_de_perms_from_ctx
o_created(s, pn, name, is_dir, shared, uid) ==
    [o_changed(s, pn) EXCEPT
         !.node[o_free(s.node)] =
             [NoONode EXCEPT !.there = TRUE, !.is_dir = is_dir, !.refcnt = 1,
                             !.parent = pn, !.name = name, !.in_tree = TRUE,
                             !.uid = uid, !.shared = shared, !.held = 1],
         !.node[pn].refcnt = @ + 1]

\* Operations.mkdir(parent_inode, name, mode, ctx); shared stands for mode
\* 0o1777 under umask 0, otherwise the mode is 0o700
facade_mkdir(s, pn, name, shared, uid) ==
    IF ~access(s.node, pn, uid) THEN SRaise(s, "EPERM")
    ELSE IF o_entry(s.node, pn, name) # 0 THEN SRaise(s, "EEXIST")
    ELSE o_created(s, pn, name, TRUE, shared, uid)

\* FileINode.open: the descriptor holds a reference
o_open(s, i) == [o_ref(s, i) EXCEPT !.node[i].fds = @ + 1]

\* Operations.create on a name that is there; a directory has no open()
create_found(s, n, excl, uid) ==
    IF excl THEN o_deref(SRaise(s, "EEXIST"), n)
    ELSE IF ~access(s.node, n, uid) THEN o_deref(SRaise(s, "EPERM"), n)
    ELSE IF s.node[n].is_dir THEN o_deref(SRaise(s, "AttributeError"), n)
    ELSE [o_changed(o_open(s, n), n) EXCEPT !.node[n].held = @ + 1]

\* Operations.create(parent_inode, name, mode, flags, ctx) with mode 0o600
facade_create(s, pn, name, excl, uid) ==
    IF ~access(s.node, pn, uid) THEN SRaise(s, "EPERM")
    ELSE IF o_lookup(s, pn, name, uid).got # 0
    THEN create_found(o_lookup(s, pn, name, uid), o_lookup(s, pn, name, uid).got, excl, uid)
    ELSE o_changed(o_open(o_created(s, pn, name, FALSE, FALSE, uid), o_free(s.node)),
                   o_free(s.node))

\* Operations.lookup(parent_inode, name, ctx)
facade_lookup(s, pn, name, uid) ==
    IF ~SOk(o_lookup(s, pn, name, uid)) THEN o_lookup(s, pn, name, uid)
    ELSE IF o_lookup(s, pn, name, uid).got = 0 THEN SRaise(s, "ENOENT")
    ELSE [o_lookup(s, pn, name, uid) EXCEPT !.node[o_lookup(s, pn, name, uid).got].held = @ + 1]

\* Operations.forget1(inode)
facade_forget(s, i) == [o_deref(s, i) EXCEPT !.node[i].held = @ - 1]

\* Operations.release(fh): FileDescriptor.close
facade_release(s, i) == [o_deref(s, i) EXCEPT !.node[i].fds = @ - 1]

\* the directories a caller can name: inodes it holds, and the root
ODirs == {i \in OIno : onode[i].there /\ onode[i].is_dir /\ (i = ORoot \/ onode[i].held > 0)}

OBounded == \A i \in OIno : onode[i].refcnt + 3 <= MaxOpsRefcnt + (IF i = ORoot THEN MaxInodes ELSE 0)

CommitOps(op, s) ==
    /\ onode' = s.node
    /\ olast' = [op |-> op, err |-> s.err, stamped |-> s.stamped]
    /\ UNCHANGED <<svars, fvars, uvars, bvars, dvars, mvars, pvars, tvars, avars, rvars>>

OpsMkdir(pn, name, shared, uid) ==
    /\ OBounded
    /\ \E i \in OIno : ~onode[i].there
    /\ CommitOps("mkdir", facade_mkdir(TheOps, pn, name, shared, uid))

OpsCreate(pn, name, excl, uid) ==
    /\ OBounded
    /\ \E i \in OIno : ~onode[i].there
    /\ \A i \in OIno : onode[i].fds = 0
    /\ CommitOps("create", facade_create(TheOps, pn, name, excl, uid))

OpsLookup(pn, name, uid) ==
    /\ OBounded
    /\ \A i \in OIno : onode[i].held < 1
    /\ CommitOps("lookup", facade_lookup(TheOps, pn, name, uid))

OpsForget(i) ==
    /\ onode[i].held > 0
    /\ CommitOps("forget", facade_forget(TheOps, i))

OpsRelease(i) ==
    /\ onode[i].fds > 0
    /\ CommitOps("release", facade_release(TheOps, i))

OpsRmdir(pn, name, uid) ==
    /\ OBounded
    /\ CommitOps("rmdir", facade_rmdir(TheOps, pn, name, uid))

OpsFacadeUnlink(pn, name, uid) ==
    /\ OBounded
    /\ CommitOps("unlink", facade_unlink(TheOps, pn, name, uid, FALSE))

OpsRename(pold, nold, pnew, nnew, uid) ==
    /\ OBounded
    /\ CommitOps("rename", facade_rename(TheOps, pold, nold, pnew, nnew, uid))

NextOps ==
    \/ \E pn \in ODirs, name \in ONames, shared \in BOOLEAN, uid \in OUids :
           OpsMkdir(pn, name, shared, uid)
    \/ \E pn \in ODirs, name \in ONames, excl \in BOOLEAN, uid \in OUids :
           OpsCreate(pn, name, excl, uid)
    \/ \E pn \in ODirs, name \in ONames, uid \in OUids : OpsLookup(pn, name, uid)
    \/ \E i \in OIno : OpsForget(i)
    \/ \E i \in OIno : OpsRelease(i)
    \/ \E pn \in ODirs, name \in ONames, uid \in OUids : OpsRmdir(pn, name, uid)
    \/ \E pn \in ODirs, name \in ONames, uid \in OUids : OpsFacadeUnlink(pn, name, uid)
    \/ \E pold \in ODirs, nold \in ONames, pnew \in ODirs, nnew \in ONames, uid \in OUids :
           OpsRename(pold, nold, pnew, nnew, uid)

SpecOps == Init /\ [][NextOps]_vars

\* the entries of the directory trees with their metadata
OEntries(t) ==
    {[dir |-> t[i].parent, name |-> t[i].name, is_dir |-> t[i].is_dir, uid |-> t[i].uid,
      shared |-> t[i].shared] : i \in {j \in OIno : t[j].there /\ t[j].in_tree}}

\* C22: after a facade call that raised one of the error codes the
\* directory trees hold the entries they held before the call, with the
\* same metadata, and no entry got a new time stamp
C22_FailedCallNoEffect ==
    [][olast'.err \in Errnos =>
           /\ OEntries(onode') = OEntries(onode)
           /\ olast'.stamped = {}]_vars

\* C23: after a rename that raised, every inode has the reference count it
\* had before the call
C23_RenameReleasesLookups ==
    [][(olast'.op = "rename" /\ olast'.err # "ok") =>
           \A i \in OIno : onode'[i].refcnt = onode[i].refcnt]_vars

\* LoadedTreeNode.to_data and perform_flush over the tree of SpecBtree: the
\* type with the leafy bit, the node's own key and the pickled child list;
\* a child tree node is pickled as its key and its block id, a leaf as its
\* name.  The block id is the hash of the data and is modelled as the data.
RECURSIVE tree_to_data(_)
tree_to_data(n) ==
    [leafy |-> is_leafy(n),
     key |-> n.key,
     pickled_child_list |->
         [i \in 1..Len(n.children) |->
             IF n.children[i].leaf THEN [name |-> n.children[i].key]
             ELSE [key |-> n.children[i].key,
                   block_id |-> tree_to_data(n.children[i])]]]

\* a fresh root to which the leaves ks are added one after the other
RECURSIVE added_in_turn(_, _)
added_in_turn(b, ks) ==
    IF ks = <<>> THEN b
    ELSE added_in_turn(add_to_tree(b, LeafNode(Head(ks))), Tail(ks))

\* the root block id of a second forest that gets the same entries in
\* ascending order of their keys
written_again(ks) == tree_to_data(added_in_turn([t |-> TreeNode, err |-> "ok"], ks).t)

\* C24: the root block id of a directory tree is the one a fresh tree gets
\* when the same entries are written to it: it depends on the entries only,
\* not on the order of the additions and removals that led to them.
C24_SameContentsSameRoot == tree_to_data(root) = written_again(get_leaves(root))

\* ---------------------------------------------------------------------
\* The block codecs.  A block is a type byte and a payload of bytes; the
\* codecs are stacked: CompressingTypedBlockCodec over NopBlockCodec or
\* over ConfidentialBlockCodec.
MaxPayload == 5

BIT_COMPRESSED == 128

\* ConfidentialBlockCodec.magic, as one element of the encoding
magic == 4207

\* ConfidentialBlockCodec.key, derived from the password
codec_key == 77

PayloadBytes == {0, 255}

TypeBytes == {0, 1, 3, 66, 127}

CodecIds == {1, 2}

\* what os.urandom gives for the iv
CodecIvs == {0, 200}

Payloads == UNION {[1..n -> PayloadBytes] : n \in 0..MaxPayload}

has_bit(t, bit) == (t \div bit) % 2 = 1

\* t | bit and t & ~bit
with_bit(t, bit) == IF has_bit(t, bit) THEN t ELSE t + bit

without_bit(t, bit) == IF has_bit(t, bit) THEN t - bit ELSE t

\* how many times the first byte of d is repeated at its start
RECURSIVE run_length(_)
run_length(d) ==
    IF Len(d) < 2 \/ d[2] # d[1] THEN 1
    ELSE 1 + run_length(Tail(d))

RECURSIVE runs(_)
runs(d) ==
    IF d = <<>> THEN <<>>
    ELSE <<run_length(d), Head(d)>> \o runs(SubSeq(d, run_length(d) + 1, Len(d)))

\* lz4.compress: a header with the length of the input, then the input
\* with its repetitions folded; longer than the input when nothing repeats
lz4_compress(d) == <<Len(d)>> \o runs(d)

RECURSIVE unfolded(_)
unfolded(r) ==
    IF Len(r) < 2 THEN <<>>
    ELSE [i \in 1..r[1] |-> r[2]] \o unfolded(SubSeq(r, 3, Len(r)))

\* lz4.loads: the inverse of lz4.compress, checked against the header
lz4_loads(cd) ==
    IF cd # <<>> /\ Len(unfolded(Tail(cd))) = cd[1]
    THEN [err |-> "ok", d |-> unfolded(Tail(cd))]
    ELSE [err |-> "ValueError", d |-> <<>>]

RECURSIVE byte_sum(_)
byte_sum(d) == IF d = <<>> THEN 0 ELSE (Head(d) + byte_sum(Tail(d))) % 256

\* AES-GCM: a keystream from the key and the iv is added to every byte; the
\* tag authenticates the ciphertext and the block id under the key
gcm_update(k, iv, d) == [i \in 1..Len(d) |-> (d[i] + k + iv) % 256]

gcm_decrypted(k, iv, s) == [i \in 1..Len(s) |-> (s[i] + 512 - k - iv) % 256]

gcm_tag(k, iv, id, s) == (byte_sum(s) + k + iv + id) % 256

\* NopBlockCodec and ConfidentialBlockCodec.encode_block
inner_encode_block(conf, iv, id, data) ==
    IF ~conf THEN data
    ELSE <<magic, iv, gcm_tag(codec_key, iv, id, gcm_update(codec_key, iv, data))>>
             \o gcm_update(codec_key, iv, data)

\* NopBlockCodec and ConfidentialBlockCodec.decode_block
inner_decode_block(conf, id, bd) ==
    IF ~conf THEN [err |-> "ok", d |-> bd]
    ELSE IF Len(bd) <= 3 \/ bd[1] # magic
    THEN [err |-> "AssertionError", d |-> <<>>]
    ELSE IF bd[3] # gcm_tag(codec_key, bd[2], id,
                                    SubSeq(bd, 4, Len(bd)))
    THEN [err |-> "InvalidTag", d |-> <<>>]
    ELSE [err |-> "ok",
          d |-> gcm_decrypted(codec_key, bd[2],
                              SubSeq(bd, 4, Len(bd)))]

\* TypedBlockCodec.encode_block: what is handed to the inner codec
typed_block(t, d) == <<t>> \o d

\* CompressingTypedBlockCodec.encode_block that always keeps the compressed form
compressed_always(t, d) == typed_block(with_bit(t, BIT_COMPRESSED), lz4_compress(d))

\* CompressingTypedBlockCodec.encode_block, up to the call of the inner codec
compressing_typed_block(t, d) ==
    IF Len(lz4_compress(d)) < Len(d)
    THEN typed_block(with_bit(t, BIT_COMPRESSED), lz4_compress(d))
    ELSE typed_block(t, d)

\* TypedBlockCodec.decode_block
typed_decode_block(conf, id, bd) ==
    IF Len(bd) = 0 THEN [err |-> "AssertionError", t |-> 0, d |-> <<>>]
    ELSE IF inner_decode_block(conf, id, bd).err # "ok"
    THEN [err |-> inner_decode_block(conf, id, bd).err, t |-> 0, d |-> <<>>]
    ELSE IF Len(inner_decode_block(conf, id, bd).d) = 0
    THEN [err |-> "AssertionError", t |-> 0, d |-> <<>>]
    ELSE [err |-> "ok", t |-> Head(inner_decode_block(conf, id, bd).d),
          d |-> Tail(inner_decode_block(conf, id, bd).d)]

\* CompressingTypedBlockCodec.decode_block, given what TypedBlockCodec decoded
decompressed(r) ==
    IF r.err # "ok" \/ ~has_bit(r.t, BIT_COMPRESSED) THEN r
    ELSE [err |-> lz4_loads(r.d).err, t |-> without_bit(r.t, BIT_COMPRESSED),
          d |-> lz4_loads(r.d).d]

\* CompressingTypedBlockCodec.decode_block that leaves the type byte as stored
decode_block_keeps_type(conf, id, bd) ==
    [decompressed(typed_decode_block(conf, id, bd))
        EXCEPT !.t = typed_decode_block(conf, id, bd).t]

compressing_decode_block(conf, id, bd) ==
    decompressed(typed_decode_block(conf, id, bd))

CodecInputs ==
    [stage : {"input"}, id : CodecIds, t : TypeBytes, d : Payloads,
     conf : BOOLEAN, iv : CodecIvs, typed : {<<>>}, stored : {<<>>},
     out : {[err |-> "ok", t |-> 0, d |-> <<>>]}]

\* a block is at hand, nothing else has happened
InitCodec ==
    /\ StoreStart /\ FileStart /\ XInit
    /\ cblock \in {c \in CodecInputs : c.conf \/ c.iv = 0}
    /\ pnode = NoPickled

\* codec.encode_block(block_id, (t, d))
EncodeBlock ==
    /\ cblock.stage = "input"
    /\ cblock' = [cblock EXCEPT
           !.stage = "encoded",
           !.typed = compressing_typed_block(cblock.t, cblock.d),
           !.stored = inner_encode_block(cblock.conf, cblock.iv, cblock.id,
                                         compressing_typed_block(cblock.t, cblock.d))]
    /\ UNCHANGED <<svars, fvars, uvars, bvars, dvars, mvars, ovars, pnode, tvars, avars, rvars>>

\* codec.decode_block(block_id, stored)
DecodeBlock ==
    /\ cblock.stage = "encoded"
    /\ cblock' = [cblock EXCEPT
           !.stage = "decoded",
           !.out = compressing_decode_block(cblock.conf, cblock.id, cblock.stored)]
    /\ UNCHANGED <<svars, fvars, uvars, bvars, dvars, mvars, ovars, pnode, tvars, avars, rvars>>

NextCodec == EncodeBlock \/ DecodeBlock

SpecCodec == InitCodec /\ [][NextCodec]_vars

\* C25: decoding what was encoded under the same block id gives the type
\* byte and the payload back, without the COMPRESSED bit; the type byte
\* handed to the inner codec has the COMPRESSED bit exactly when the
\* compressed payload is strictly shorter than the payload, and then the
\* stored payload is the compressed one, else the payload itself.
C25_CodecRoundTrip ==
    /\ cblock.stage \in {"encoded", "decoded"} =>
           /\ has_bit(cblock.typed[1], BIT_COMPRESSED)
                  <=> Len(lz4_compress(cblock.d)) < Len(cblock.d)
           /\ has_bit(cblock.typed[1], BIT_COMPRESSED) =>
                  /\ Tail(cblock.typed) = lz4_compress(cblock.d)
                  /\ Len(cblock.typed) < 1 + Len(cblock.d)
           /\ ~has_bit(cblock.typed[1], BIT_COMPRESSED) =>
                  cblock.typed = <<cblock.t>> \o cblock.d
    /\ cblock.stage = "decoded" =>
           /\ cblock.out = [err |-> "ok", t |-> cblock.t, d |-> cblock.d]
           /\ ~has_bit(cblock.out.t, BIT_COMPRESSED)

\* a payload that was stored compressed under the encrypting codec, and one
\* that was stored as it is, have been decoded
C25_Witness ==
    /\ cblock.stage = "decoded"
    /\ cblock.conf
    /\ has_bit(cblock.typed[1], BIT_COMPRESSED)
    /\ cblock.stored # cblock.typed
    /\ Len(cblock.d) = MaxPayload

\* ---------------------------------------------------------------------
\* CBORPickler.  An object is its class and its instance attributes; an
\* attribute that is absent reads as the class attribute.  A schema field
\* that is a property of the class (block_id of a tree node, _cbor_data of
\* a directory entry) always has a value, and the class attribute, the
\* property itself, equals no value.
PNone == -1

PProperty == -2

PAbsent == -3

PValues == {PNone, 0, 7, 42}

PClasses == {"Dummy", "LoadedTreeNode", "NamedLeafNode"}

\* internal2external_dict of the class's pickler, in its order, with the
\* class attribute of every field
PSchema(cls) ==
    IF cls = "Dummy"
    THEN <<[k |-> "foo", ext |-> 42, dflt |-> 42], [k |-> "bar", ext |-> 7, dflt |-> PNone]>>
    ELSE IF cls = "LoadedTreeNode"
    THEN <<[k |-> "key", ext |-> 1, dflt |-> PNone],
           [k |-> "block_id", ext |-> 2, dflt |-> PProperty]>>
    ELSE <<[k |-> "name", ext |-> 33, dflt |-> PNone],
           [k |-> "block_id", ext |-> 34, dflt |-> PNone],
           [k |-> "block_data", ext |-> 35, dflt |-> PNone],
           [k |-> "_cbor_data", ext |-> 36, dflt |-> PProperty]>>

PFields(cls) == {PSchema(cls)[i].k : i \in 1..Len(PSchema(cls))}

PField(cls, k) == PSchema(cls)[CHOOSE i \in 1..Len(PSchema(cls)) : PSchema(cls)[i].k = k]

\* an object just constructed: no instance attribute, block_id None, no data
PFresh(cls) ==
    [cls |-> cls,
     attrs |-> [k \in PFields(cls) |->
                   IF PField(cls, k).dflt # PProperty THEN PAbsent
                   ELSE IF k = "block_id" THEN PNone ELSE 0]]

PObjects ==
    UNION {{[cls |-> cls, attrs |-> a] :
               a \in {f \in [PFields(cls) -> PValues \cup {PAbsent}] :
                         \A k \in PFields(cls) :
                             PField(cls, k).dflt = PProperty => f[k] # PAbsent}} :
           cls \in PClasses}

\* getattr(o, k, None)
p_getattr(o, k) ==
    IF o.attrs[k] = PAbsent THEN PField(o.cls, k).dflt ELSE o.attrs[k]

\* get_internal_dict_items that dumps the class defaults too
get_every_item(o, i) ==
    [j \in 1..Len(PSchema(o.cls)) |->
        <<PSchema(o.cls)[j].ext, p_getattr(o, PSchema(o.cls)[j].k)>>]

\* CBORPickler.get_internal_dict_items followed by
\* get_external_items_from_internal_items, from the i-th field on
RECURSIVE get_external_items(_, _)
get_external_items(o, i) ==
    IF i > Len(PSchema(o.cls)) THEN <<>>
    ELSE (IF p_getattr(o, PSchema(o.cls)[i].k) = PSchema(o.cls)[i].dflt THEN <<>>
          ELSE <<<<PSchema(o.cls)[i].ext, p_getattr(o, PSchema(o.cls)[i].k)>>>>)
         \o get_external_items(o, i + 1)

\* CBORPickler.get_external_dict
get_external_dict(o) == get_external_items(o, 1)

\* cbor.dumps of a map: the number of pairs, then key and value of each
RECURSIVE cbor_pairs(_)
cbor_pairs(items) ==
    IF items = <<>> THEN <<>> ELSE Head(items) \o cbor_pairs(Tail(items))

cbor_dumps(items) == <<Len(items)>> \o cbor_pairs(items)

\* cbor.loads
cbor_loads(b) == [i \in 1..b[1] |-> <<b[2 * i], b[2 * i + 1]>>]

\* CBORPickler.dumps
pickler_dumps(o) == cbor_dumps(get_external_dict(o))

\* CBORPickler.unload_from: delattr of every schema field; a property has
\* no deleter and stays
unload_from(o) ==
    [o EXCEPT !.attrs = [k \in PFields(o.cls) |->
                            IF PField(o.cls, k).dflt = PProperty THEN o.attrs[k]
                            ELSE PAbsent]]

\* external2internal_dict
external2internal(cls, e) ==
    PSchema(cls)[CHOOSE i \in 1..Len(PSchema(cls)) : PSchema(cls)[i].ext = e].k

\* the setattr loop of CBORPickler.set_external_dict_to
RECURSIVE set_items(_, _)
set_items(o, items) ==
    IF items = <<>> THEN o
    ELSE set_items([o EXCEPT !.attrs[external2internal(o.cls, Head(items)[1])] =
                                 Head(items)[2]],
                   Tail(items))

\* CBORPickler.set_external_dict_to
set_external_dict_to(d, o) == set_items(unload_from(o), d)

\* CBORPickler.load_external_dict_to
load_external_dict_to(b, o) == set_external_dict_to(cbor_loads(b), o)

PickleInputs ==
    {[stage |-> "object", o |-> o, dumped |-> <<>>, o2 |-> PFresh(o.cls)] : o \in PObjects}

\* an object is at hand, nothing else has happened
InitPickle ==
    /\ StoreStart /\ FileStart /\ XInit
    /\ cblock = NoCodecBlock
    /\ pnode \in PickleInputs

\* pickler.dumps(o)
Dumps ==
    /\ pnode.stage = "object"
    /\ pnode' = [pnode EXCEPT !.stage = "dumped", !.dumped = pickler_dumps(pnode.o)]
    /\ UNCHANGED <<svars, fvars, uvars, bvars, dvars, mvars, ovars, cblock, tvars, avars, rvars>>

\* pickler.load_external_dict_to(d, o2) with a fresh o2 of the same class
LoadTo ==
    /\ pnode.stage = "dumped"
    /\ pnode' = [pnode EXCEPT !.stage = "loaded",
                              !.o2 = load_external_dict_to(pnode.dumped, pnode.o2)]
    /\ UNCHANGED <<svars, fvars, uvars, bvars, dvars, mvars, ovars, cblock, tvars, avars, rvars>>

NextPickle == Dumps \/ LoadTo

SpecPickle == InitPickle /\ [][NextPickle]_vars

\* the external keys of the serialized form
PDumpedKeys == {pnode.dumped[2 * i] : i \in 1..pnode.dumped[1]}

\* C26: the object loaded from the serialized form reads the same as the
\* original in every schema field; a field that differs from its class
\* attribute is in the encoding with its value, and a field that equals its
\* class attribute is not in the encoding and reads as the class attribute
\* in the loaded object.
C26_PicklerRoundTrip ==
    /\ pnode.stage \in {"dumped", "loaded"} =>
           \A i \in 1..Len(PSchema(pnode.o.cls)) :
               IF p_getattr(pnode.o, PSchema(pnode.o.cls)[i].k) = PSchema(pnode.o.cls)[i].dflt
               THEN PSchema(pnode.o.cls)[i].ext \notin PDumpedKeys
               ELSE \E j \in 1..pnode.dumped[1] :
                        /\ pnode.dumped[2 * j] = PSchema(pnode.o.cls)[i].ext
                        /\ pnode.dumped[2 * j + 1] = p_getattr(pnode.o, PSchema(pnode.o.cls)[i].k)
    /\ pnode.stage = "loaded" =>
           \A k \in PFields(pnode.o.cls) :
               /\ p_getattr(pnode.o2, k) = p_getattr(pnode.o, k)
               /\ p_getattr(pnode.o, k) = PField(pnode.o.cls, k).dflt =>
                      pnode.o2.attrs[k] = PAbsent

\* a directory entry with a name and a block id set, its block_data set to
\* the class default and its data not empty has been dumped and loaded
C26_Witness ==
    /\ pnode.stage = "loaded"
    /\ pnode.o.cls = "NamedLeafNode"
    /\ pnode.o.attrs["name"] = 7
    /\ pnode.o.attrs["block_id"] = 42
    /\ pnode.o.attrs["block_data"] = PNone
    /\ pnode.o.attrs["_cbor_data"] = 7
    /\ Len(pnode.dumped) = 7
    /\ pnode.o2.attrs["block_data"] = PAbsent

\* ---------------------------------------------------------------------
\* _store_entry of FileINode.perform_flush, step by step.
\* Storage.refer_or_store_block, refer_block and release_block run in one go
RefcntNow(tb, id) == IF tb[id] = NoRefcnt THEN 0 ELSE tb[id]

refer_or_store_now(tb, id) ==
    IF tb[id] # NoRefcnt THEN [tb EXCEPT ![id] = @ + 1] ELSE [tb EXCEPT ![id] = 1]

refer_now(tb, id) == [tb EXCEPT ![id] = @ + 1]

release_now(tb, id) == [tb EXCEPT ![id] = @ - 1]

\* _store_entry(t) run from its start to its end
store_entry_now(tb, id) == release_now(refer_now(refer_or_store_now(tb, id), id), id)

\* map(_store_entry, pending_stores) without threads
RECURSIVE stored_in_turn(_, _)
stored_in_turn(tb, pending) ==
    IF pending = <<>> THEN tb
    ELSE stored_in_turn(store_entry_now(tb, Head(pending)), Tail(pending))

CommitThread(tb, ws, fl) ==
    /\ tstore' = tb
    /\ workers' = ws
    /\ tflush' = fl
    /\ UNCHANGED <<svars, fvars, uvars, bvars, dvars, mvars, ovars, pvars, avars, rvars>>

\* an earlier flush has stored a block of the content
StoredEarlier(id) ==
    /\ tflush.phase = "idle"
    /\ RefcntNow(tstore, id) < 1
    /\ CommitThread(refer_or_store_now(tstore, id), workers, tflush)

\* perform_flush with more than two pending blocks: _maybe_threaded_map
\* hands every pending block to a worker
StartFlush(pending) ==
    /\ tflush.phase = "idle"
    /\ CommitThread(tstore,
                    [w \in TWorkers |-> [pc |-> "get_block", bid |-> pending[w], rc |-> 0]],
                    [phase |-> "running", pending |-> pending, before |-> tstore])

\* refer_or_store_block: r = self.get_block_by_id(block_id)
WGetBlock(w) ==
    /\ workers[w].pc = "get_block"
    /\ CommitThread(tstore,
                    [workers EXCEPT ![w].pc = IF tstore[workers[w].bid] # NoRefcnt
                                              THEN "refer_read" ELSE "store"],
                    tflush)

\* store_block: the backend asserts that it has no block of the id
WStoreBlock(w) ==
    /\ workers[w].pc = "store"
    /\ IF tstore[workers[w].bid] # NoRefcnt
       THEN CommitThread(tstore, [workers EXCEPT ![w].pc = "AssertionError"], tflush)
       ELSE CommitThread([tstore EXCEPT ![workers[w].bid] = 1],
                         [workers EXCEPT ![w].pc = "set_read"], tflush)

\* refer_block and release_block: r = self.get_block_by_id(block_id) and the
\* read of r.refcnt
WReadRefcnt(w) ==
    /\ workers[w].pc \in {"refer_read", "set_read", "release_read"}
    /\ IF workers[w].pc = "release_read" /\ tstore[workers[w].bid] < 1
       THEN CommitThread(tstore, [workers EXCEPT ![w].pc = "AssertionError"], tflush)
       ELSE CommitThread(tstore,
                         [workers EXCEPT
                             ![w].rc = tstore[workers[w].bid],
                             ![w].pc = IF @ = "refer_read" THEN "refer_write"
                                       ELSE IF @ = "set_read" THEN "set_write"
                                       ELSE "release_write"],
                         tflush)

\* refer_block and release_block: r.set_refcnt(refcnt) with what was read
WSetRefcnt(w) ==
    /\ workers[w].pc \in {"refer_write", "set_write", "release_write"}
    /\ CommitThread([tstore EXCEPT ![workers[w].bid] =
                         IF workers[w].pc = "release_write" THEN workers[w].rc - 1
                         ELSE workers[w].rc + 1],
                    [workers EXCEPT ![w].pc = IF @ = "refer_write" THEN "set_read"
                                              ELSE IF @ = "set_write" THEN "release_read"
                                              ELSE "done"],
                    tflush)

\* list(...) over the results of the workers: the first exception of a
\* worker is raised again, else _write_blocks is dropped
JoinFlush ==
    /\ tflush.phase = "running"
    /\ \A w \in TWorkers : workers[w].pc \in {"done", "AssertionError"}
    /\ CommitThread(tstore, workers,
                    [tflush EXCEPT !.phase =
                        IF \E w \in TWorkers : workers[w].pc = "AssertionError"
                        THEN "raised" ELSE "returned"])

NextThread ==
    \/ \E id \in TIds : StoredEarlier(id)
    \/ \E pending \in [TWorkers -> TIds] : StartFlush(pending)
    \/ \E w \in TWorkers : WGetBlock(w)
    \/ \E w \in TWorkers : WStoreBlock(w)
    \/ \E w \in TWorkers : WReadRefcnt(w)
    \/ \E w \in TWorkers : WSetRefcnt(w)
    \/ JoinFlush

SpecThread == Init /\ [][NextThread]_vars

\* C27: when perform_flush is over, under whatever interleaving of its
\* workers, it has returned and every block has the refcount it gets when
\* the pending blocks are stored one after another.
C27_WorkersAsInTurn ==
    tflush.phase \in {"returned", "raised"} =>
        /\ tflush.phase = "returned"
        /\ tstore = stored_in_turn(tflush.before, tflush.pending)

\* the assertions of Storage, DelayedStorage and StoredBlock
StorageAssertions ==
    {"AssertionError: mark_dirty_related with stored",
     "AssertionError: not block.refcnt",
     "AssertionError: refcnt >= 0",
     "AssertionError: block id awol",
     "AssertionError: release of no block",
     "AssertionError: store_block of a stored block"}

\* C28: whatever calls were made within their preconditions, the last call
\* has failed no assertion of the storage, and no block has a refcount
\* below 0.
C28_NoAssertionFails ==
    /\ err \notin StorageAssertions
    /\ \A id \in Ids : RefcntOf(id) = NoneRc \/ RefcntOf(id) >= 0

\* ------------------------------------------------------------------ C29
\* FileINode.stored_size: the length of the inline data, of the content of
\* the FileData node, or what the last leaf of the flushed tree gives.
size_as_stored(f) ==
    IF f.node = "None" THEN Len(Bytes(f.block_data))
    ELSE IF f.node = "data" THEN Len(Bytes(f.content))
    ELSE stored_size(f).ssize

\* The leaves of the tree once FileINode.flush has run, none in another
\* regime.
flushed_leaves(f) ==
    IF f.node = "tree" THEN FileINode_flush(f).leaves ELSE [k \in Keys |-> NoData]

\* No leaf starts past size, and no leaf holds a byte past size.
dropped_past(f, size) ==
    \A k \in Keys:
        flushed_leaves(f)[k] # NoData =>
            k * BLOCK_SIZE_LIMIT + Len(flushed_leaves(f)[k]) <= size

\* C29: after a set_size(n) that changed the size, and a flush of the file,
\* the size the stored representation gives is the st_size n of the
\* directory entry, and no leaf and no byte of a block lies past n
C29_StoredSizeIsSize ==
    [][(flast'.op = "set_size" /\ flast'.ok /\ st_size' # st_size) =>
           /\ size_as_stored(File)' = st_size'
           /\ dropped_past(File, st_size)']_vars

\* ------------------------------------------------------------------ C30
\* the inodes made under p with a leaf_node that the step unregisters
released_kids(p) ==
    {c \in Kids(p) : ino[c].there /\ ~ino'[c].there /\ ino[c].leaf_node # "None"}

\* C30: no call but Forest.flush unregisters an inode, so that an inode of
\* refcount 0 stays registered until the next flush; the flush returns,
\* having found the inode of every dirty tree node, and unregisters exactly
\* the inodes whose references, if any, were those of inodes it unregisters
\* under them: an inode with a reference of a caller is kept, whether the
\* caller took it after the count was 0 or before, and no inode of
\* refcount 0 is left, a parent released by its last child included
C30_RemovedOnlyByFlush ==
    [][IF dlast'.op = "flush"
       THEN /\ dlast'.ok
            /\ \A p \in DPaths :
                   /\ ino'[p].there => ino[p].there /\ ino'[p].refcnt > 0
                   /\ (ino[p].there /\ ~ino'[p].there) =>
                          /\ user_refs[p] = 0
                          /\ ino[p].refcnt = Cardinality(released_kids(p))
            /\ dlast'.cnt = Cardinality({p \in DPaths : ino[p].there /\ ~ino'[p].there})
       ELSE \A p \in DPaths : ino[p].there => ino'[p].there]_vars

\* A flush has unregistered a directory's inode together with the inode of
\* an entry of the directory, and kept the inode a caller holds.
C30_Witness ==
    /\ dlast.op = "flush" /\ dlast.ok /\ dlast.cnt = 2
    /\ want[<<"a">>].there /\ ~ino[<<"a">>].there
    /\ want[<<"a", "a">>].there /\ ~ino[<<"a", "a">>].there
    /\ ino[<<"b">>].there /\ user_refs[<<"b">>] = 1 /\ ino[<<"b">>].refcnt = 1

\* ------------------------------------------------------------------ C31
\* A directory wide enough for a tree node with a sibling on either side:
\* the tree that gets the keys 1..MaxWideKey in ascending or in descending
\* order.
MaxWideKey == 13

WideKeys == 1..MaxWideKey

ascending(n) == [i \in 1..n |-> i]

descending(n) == [i \in 1..n |-> n + 1 - i]

InitWide ==
    /\ StoreStart /\ FileStart /\ PureInit
    /\ UnlinkInit /\ DirInit /\ MergeInit /\ OpsInit /\ ThreadInit /\ AllocInit
    /\ ReclaimInit
    /\ root \in {added_in_turn([t |-> TreeNode, err |-> "ok"], ks).t :
                    ks \in {ascending(MaxWideKey), descending(MaxWideKey)}}
    /\ present = WideKeys
    /\ blast = [op |-> "init", key |-> NoKey, ok |-> TRUE]

NextWide == \E k \in WideKeys: RemoveFromTree(k)

SpecWide == InitWide /\ [][NextWide]_vars

\* the tree in which the leaf of k has left its parent, before remove_child
\* looks at the parent's size
without_leaf(t, k) ==
    BPut([t |-> t, err |-> "ok"], Front(search(t, k)),
         remove_child_nocheck(At(t, Front(search(t, k))),
                              index(At(t, Front(search(t, k))).child_keys, k)))

\* remove_from_tree(k) finds the parent of the leaf under minimum_size, with
\* a smaller and a larger sibling of which neither has spares
cannot_borrow(t, k) ==
    /\ search(t, k) # <<>>
    /\ Front(search(t, k)) # <<>>
    /\ ~at_minimum_size(At(without_leaf(t, k).t, Front(search(t, k))))
    /\ get_smaller_sib(without_leaf(t, k), Front(search(t, k))) # <<>>
    /\ get_larger_sib(without_leaf(t, k), Front(search(t, k))) # <<>>
    /\ ~at_has_spares_size(At(t, get_smaller_sib(without_leaf(t, k), Front(search(t, k)))))
    /\ ~at_has_spares_size(At(t, get_larger_sib(without_leaf(t, k), Front(search(t, k)))))

\* the two siblings of the parent of the leaf of k, as nodes
siblings_of(t, k) ==
    {At(t, get_smaller_sib(without_leaf(t, k), Front(search(t, k)))),
     At(t, get_larger_sib(without_leaf(t, k), Front(search(t, k))))}

Range(s) == {s[i] : i \in 1..Len(s)}

\* C31: when remove_from_tree leaves a node under minimum_size that has a
\* smaller and a larger sibling, neither with spares, the children left in
\* the node are afterwards the children of one tree node together with those
\* of a sibling whose csize was not below the other sibling's, and the node
\* is a child of its parent no more
C31_MergeIntoLarger ==
    [][(blast'.op = "remove" /\ blast'.ok /\ cannot_borrow(root, blast'.key)) =>
           \E s \in siblings_of(root, blast'.key) :
               /\ \A o \in siblings_of(root, blast'.key) : csize(s) >= csize(o)
               /\ \E n \in tree_nodes(root') :
                      Range(n.child_keys) =
                          Range(s.child_keys)
                              \cup (Range(At(root, Front(search(root, blast'.key))).child_keys)
                                        \ {blast'.key})]_vars

\* ------------------------------------------------------------------ C32
\* the node add_to_tree(k) calls add_child on: the parent of the closest
\* leaf, or the root
add_child_path(t, k) ==
    IF search_prev_or_eq(t, k) # <<>> THEN Front(search_prev_or_eq(t, k)) ELSE <<>>

\* the path of the node filed right after the node at p
next_path(p) == Front(p) \o <<p[Len(p)] + 1>>

\* what a split of the node at p has left: the root holds its old children
\* in its first child and the new node as the second, any other node has
\* the new node filed right after it
split_halves(t, p) ==
    IF p = <<>> THEN <<t.children[1], t.children[2]>>
    ELSE <<At(t, p), At(t, next_path(p))>>

\* C32: after every add_to_tree and remove_from_tree every tree node has a
\* csize of at most maximum_size, and an add_to_tree to a node that was full
\* leaves that node no larger than the new node split off it
C32_WithinMaximumSize ==
    [][/\ \A n \in tree_nodes(root') : csize(n) <= maximum_size
       /\ (/\ blast'.op = "add" /\ blast'.ok
           /\ csize(At(root, add_child_path(root, blast'.key))) = maximum_size) =>
              /\ csize(split_halves(root', add_child_path(root, blast'.key))[1])
                     <= csize(split_halves(root', add_child_path(root, blast'.key))[2])
              /\ csize(split_halves(root', add_child_path(root, blast'.key))[1])
                     + csize(split_halves(root', add_child_path(root, blast'.key))[2])
                     = maximum_size + 1]_vars

\* The root was split, and later one of its two children, under
\* minimum_size, was emptied into the other, which had no spares.
C32_Witness ==
    /\ blast.op = "remove" /\ blast.ok
    /\ ~is_leafy(root)
    /\ Len(root.children) = 1
    /\ 2 * csize(root.children[1]) = maximum_size

\* ------------------------------------------------------------------ C33
\* how far below n its leaves lie
RECURSIVE leaf_depths(_)
leaf_depths(n) ==
    IF n.leaf THEN {0}
    ELSE {d + 1 : d \in UNION {leaf_depths(n.children[i]) : i \in 1..Len(n.children)}}

\* the children of n are all leaves or all tree nodes
same_kind_children(n) ==
    \A i, j \in 1..Len(n.children) : n.children[i].leaf = n.children[j].leaf

\* C33: after any sequence of add_to_tree and remove_from_tree the children
\* of every tree node are all leaves or all tree nodes, all leaves lie at
\* the same depth below the root, and that depth is what TreeNode.depth
\* gives for a root that has children
C33_LeavesAtOneDepth ==
    /\ \A n \in tree_nodes(root) : same_kind_children(n)
    /\ Cardinality(leaf_depths(root)) <= 1
    /\ root.children # <<>> => leaf_depths(root) = {depth(root)}

\* The root has just been split: it holds two tree nodes, which hold the
\* nine leaves.
C33_Witness ==
    /\ blast.op = "add" /\ blast.ok
    /\ Len(root.children) = 2
    /\ ~root.children[1].leaf /\ ~root.children[2].leaf
    /\ Len(get_leaves(root)) = MaxKey

\* ------------------------------------------------------------------ C34
\* the names the local directory lacked and the remote one had when the
\* last merge began
remote_only == {n \in MNames : ~mbefore.local.tree[n].there /\ mbefore.new_f.tree[n].there}

\* the names the ancestor had when the last merge began
in_ancestor == {n \in MNames : mbefore.old_f.there /\ mbefore.old_f.tree[n].there}

\* C34: after a merge3 that returned, every entry that the local directory
\* lacked and the remote one had is an entry of the local directory
C34_RemoteOnlyAdopted ==
    (mlast.op = "merge3" /\ mlast.ok) =>
        \A n \in remote_only : mlocal.tree[n] = mbefore.new_f.tree[n]

\* C34, amended: after a merge3 that returned, every entry that the local
\* directory lacked, the remote one had and the ancestor, if one was given,
\* lacked is an entry of the local directory; an entry the ancestor had is
\* left out of the local directory and counted in the delta
C34_RemoteOnlyAdoptedUnlessInAncestor ==
    (mlast.op = "merge3" /\ mlast.ok) =>
        /\ \A n \in remote_only \ in_ancestor : mlocal.tree[n] = mbefore.new_f.tree[n]
        /\ \A n \in remote_only \cap in_ancestor :
               ~mlocal.tree[n].there /\ mlast.delta > 0

\* A merge3 has adopted the entry "a" of the remote directory.
C34_Witness ==
    /\ mlast.op = "merge3" /\ mlast.ok
    /\ "a" \in remote_only \ in_ancestor
    /\ mlocal.tree["a"].there

\* the entries the local directory had and the remote directory lacked when
\* the last merge started
local_only == {n \in MNames : mbefore.local.tree[n].there /\ ~mbefore.new_f.tree[n].there}

\* the local entry carries a later st_mtime_ns than the ancestor's
locally_newer(n) == is_newer_than(mbefore.local.tree[n], mbefore.old_f.tree[n])

\* C35: after a merge3 that returned, every entry the local directory had,
\* the remote directory lacked and the common ancestor had is gone from the
\* local directory
C35_LocalOnlyDeleted ==
    (mlast.op = "merge3" /\ mlast.ok) =>
        \A n \in local_only \cap in_ancestor : ~mlocal.tree[n].there

\* C35, amended: after a merge3 that returned, an entry the local directory
\* had, the remote directory lacked and the common ancestor had is gone from
\* the local directory when it is not newer than the ancestor's entry; when
\* it is newer it is kept as it was and the merge returns a positive delta
C35_LocalOnlyDeletedUnlessNewer ==
    (mlast.op = "merge3" /\ mlast.ok) =>
        \A n \in local_only \cap in_ancestor :
            IF locally_newer(n)
            THEN mlocal.tree[n] = mbefore.local.tree[n] /\ mlast.delta > 0
            ELSE ~mlocal.tree[n].there

\* a merge3 deleted the local entry a, which the remote had removed since
\* the ancestor
C35_Witness ==
    /\ mlast.op = "merge3" /\ mlast.ok
    /\ "a" \in local_only \cap in_ancestor
    /\ ~locally_newer("a")
    /\ ~mlocal.tree["a"].there

\* DelayedStorage.calculated_cache_size: the summed size of the data of the
\* blocks in _cache_bid2block
calculated_cache_size(s) ==
    Cardinality({id \in s.ca : s.c[id].data}) * DataSize

\* what get_block_by_id(id) finds in the store s: the refcount and whether
\* there is data, of the object the store reaches, else of the backend's row
found_in(s, id) ==
    IF s.c[id].live THEN <<s.c[id].refcnt, s.c[id].data>>
    ELSE IF s.be[id].present THEN <<s.be[id].refcnt, TRUE>>
    ELSE <<NoneRc, FALSE>>

\* get_block_by_id(id) returns a block from the store s
retrievable_in(s, id) ==
    ~(Falsy(found_in(s, id)[1]) /\ ~block_id_has_references_callback(id))

\* DelayedStorage.flush up to the test of the cache size, the dirty blocks
\* flushed in the given order
before_shrink(order) == Storage_flush(flush_names(Store, Names), order)

\* the position of id in the list of cached blocks sorted by last use
used_at(s, id) == CHOOSE i \in 1..Len(s.lru) : s.lru[i] = id

\* _shrink_cache took the store from pre to post as stated
evicted_as_stated(pre, post) ==
    /\ pre.csz > maximum_cache_size =>
           \/ post.csz <= (maximum_cache_size * 3) \div 4
           \/ post.ca = {}
    /\ \A e \in pre.ca \ post.ca :
           /\ ~pre.c[e].dirty
           /\ pre.be[e].present /\ pre.be[e].refcnt = pre.c[e].refcnt
           /\ \A k \in post.ca \cap pre.ca : used_at(pre, e) < used_at(pre, k)
    /\ \A id \in Ids :
           retrievable_in(pre, id) =>
               retrievable_in(post, id) /\ found_in(post, id) = found_in(pre, id)
    /\ post.csz = calculated_cache_size(post)

\* C36: in every state of a store with a cache limit, the end of a flush
\* (the eviction, when cache_size is over the limit) leaves cache_size at
\* most 3/4 of the limit or the cache empty, evicts least recently used
\* blocks first and only clean blocks whose state is in the backend, keeps
\* every block that was retrievable retrievable with the same data and
\* refcount, and leaves cache_size equal to the summed data size of the
\* blocks still cached
C36_EvictionKeepsBlocksAndSize ==
    (err = "ok" /\ maximum_cache_size # 0) =>
        \A order \in Orders :
            Ok(shrink_if_over(before_shrink(order))) =>
                evicted_as_stated(before_shrink(order),
                                  shrink_if_over(before_shrink(order)))

\* ---------------------------------------------------------------------
\* Forest.lookup called any number of times, also for names the directory
\* does not hold.

\* the references one caller takes on an inode by lookups
MaxLookups == 3

\* Forest.lookup(dir_inode, name): search_name loads the directory's tree;
\* rv tells whether an inode was returned
lookup_name(d, p) ==
    IF load(d, Front(p)).entry[p].there
    THEN [lookup(d, p) EXCEPT !.rv = TRUE]
    ELSE load(d, Front(p))

\* Forest.lookup(dir_inode, name) of a name the directory holds
LookupAgain(p) ==
    /\ Reachable(Front(p))
    /\ user_refs[p] < MaxLookups
    /\ load(TheForest, Front(p)).entry[p].there
    /\ CommitForest("lookup", lookup_name(TheForest, p))
    /\ user_refs' = [user_refs EXCEPT ![p] = @ + 1]
    /\ UNCHANGED want

\* Forest.lookup(dir_inode, name) of a name the directory does not hold
LookupAbsent(p) ==
    /\ Reachable(Front(p))
    /\ ~load(TheForest, Front(p)).entry[p].there
    /\ CommitForest("lookup", lookup_name(TheForest, p))
    /\ UNCHANGED <<user_refs, want>>

\* inode.deref() by a caller that holds a reference
DerefOne(p) ==
    /\ user_refs[p] > 0
    /\ CommitForest("deref", deref(TheForest, p))
    /\ user_refs' = [user_refs EXCEPT ![p] = @ - 1]
    /\ UNCHANGED want

NextLookup ==
    \/ \E p \in DPaths : CreateFile(p)
    \/ \E p \in DPaths : CreateDir(p)
    \/ \E p \in DPaths : ForestUnlink(p)
    \/ \E p \in DPaths : LookupAgain(p)
    \/ \E p \in DPaths : LookupAbsent(p)
    \/ \E p \in DPaths : DerefOne(p)
    \/ DirFlush

SpecLookup == Init /\ [][NextLookup]_vars

\* the inodes other than those of the given paths are as they were
other_inodes_kept(ps) == \A q \in DDirs \ ps : ino'[q] = ino[q]

\* C37: a lookup of a name the directory holds returns an inode; when the
\* leaf has an inode it is that inode, with its refcount raised by one and
\* no other inode touched; when it has none the inode is made with refcount
\* 1 (and takes its reference on the directory's inode).  A lookup of a name
\* the directory does not hold returns nothing and changes no inode, no
\* refcount and nothing of the trees beyond loading the directory it reads
C37_LookupCounts ==
    [][/\ \A p \in DPaths :
              LookupAgain(p) =>
                  /\ dlast'.ok /\ dlast'.rv
                  /\ ino'[p].there /\ ino'[p].leaf_node = "linked"
                  /\ IF ino[p].there
                     THEN /\ ino'[p] = [ino[p] EXCEPT !.refcnt = @ + 1]
                          /\ other_inodes_kept({p})
                          /\ tnode'[p] = tnode[p]
                     ELSE /\ ino'[p].refcnt = 1
                          /\ ino'[Front(p)] = [ino[Front(p)] EXCEPT !.refcnt = @ + 1]
                          /\ other_inodes_kept({p, Front(p)})
                  /\ dns' = dns /\ blocks' = blocks /\ cname' = cname
                  /\ entry' = load(TheForest, Front(p)).entry
       /\ \A p \in DPaths :
              LookupAbsent(p) =>
                  /\ dlast'.ok /\ ~dlast'.rv
                  /\ ino' = ino
                  /\ dns' = dns /\ blocks' = blocks /\ cname' = cname
                  /\ entry' = load(TheForest, Front(p)).entry
                  /\ tnode' = load(TheForest, Front(p)).tnode]_vars

\* in a forest that has been flushed a caller holds MaxLookups references
\* on one inode, whose refcount counts them, and a lookup of a name that
\* its directory lacks has just returned nothing
C37_Witness ==
    /\ dlast.op = "lookup" /\ dlast.ok /\ ~dlast.rv
    /\ cname # NoBid
    /\ \E p \in DPaths :
           /\ user_refs[p] = MaxLookups
           /\ ino[p].there /\ ino[p].leaf_node = "linked"
           /\ ino[p].refcnt = MaxLookups + Cardinality(child_inodes(p))

TheAllocator ==
    [v2o |-> value2object, free |-> free_values, v |-> 0, err |-> "ok"]

CommitAllocator(op, o, a) ==
    /\ value2object' = a.v2o
    /\ free_values' = a.free
    /\ alast' = [op |-> op, o |-> o, v |-> a.v, ok |-> a.err = "ok"]
    /\ UNCHANGED <<svars, fvars, uvars, bvars, dvars, mvars, ovars, pvars, tvars, rvars>>

\* INodeAllocator.add_inode: a new inode object is registered
Register(o) ==
    /\ \A v \in AValues : value2object[v] # o
    /\ CommitAllocator("register", o, register(TheAllocator, o))
    /\ handed_out' = IF register(TheAllocator, o).err = "ok"
                     THEN handed_out \cup {register(TheAllocator, o).v}
                     ELSE handed_out

\* INode.remove: an inode other than the root is unregistered
Unregister(o) ==
    /\ \E v \in AValues : value2object[v] = o
    /\ CommitAllocator("unregister", o, unregister(TheAllocator, o))
    /\ UNCHANGED handed_out

NextAlloc ==
    \/ \E o \in AObjects : Register(o)
    \/ \E o \in AObjects : Unregister(o)

SpecAlloc == Init /\ [][NextAlloc]_vars

\* the values in use
in_use == {v \in AValues : value2object[v] # NoObject}

\* C38: no _allocate fails its assertion or returns a value in use; the
\* value comes from the head of the free list when there is one, where
\* unregister puts values at the end, and otherwise is larger than every
\* value returned before, the first of them ROOT_INODE + 1; no two values
\* belong to one object, and the root inode keeps ROOT_INODE
C38_ValuesUnique ==
    [][/\ alast'.op = "register" =>
              /\ alast'.ok
              /\ alast'.v \notin in_use
              /\ value2object' = [value2object EXCEPT ![alast'.v] = alast'.o]
              /\ IF free_values # <<>>
                 THEN alast'.v = Head(free_values) /\ free_values' = Tail(free_values)
                 ELSE /\ \A w \in handed_out : alast'.v > w
                      /\ handed_out = {ROOT_INODE} => alast'.v = ROOT_INODE + 1
                      /\ free_values' = free_values
       /\ alast'.op = "unregister" =>
              /\ value2object[alast'.v] = alast'.o
              /\ value2object' = [value2object EXCEPT ![alast'.v] = NoObject]
              /\ free_values' = Append(free_values, alast'.v)
       /\ \A v, w \in in_use' : value2object'[v] = value2object'[w] => v = w
       /\ value2object'[ROOT_INODE] = RootObject]_vars

\* after every fresh value had been counted up, a register took the value
\* freed first although a smaller value, freed later, was on the free list
C38_Witness ==
    /\ alast.op = "register" /\ alast.ok
    /\ Len(free_values) = 1
    /\ alast.v > free_values[1]
    /\ Cardinality(handed_out) = MaxObjects + 1

\* ---------------------------------------------------------------------
\* CBORPickler loading an encoding that another writer made: the map may
\* lack schema fields and may carry a key the schema does not have.

\* the pairs of an encoded map
MaxPairs == 3

\* an external key outside every schema
PUnknownKey == 99

PExtKeys(cls) == {PSchema(cls)[i].ext : i \in 1..Len(PSchema(cls))}

\* the maps of up to MaxPairs pairs with different keys, over the keys of
\* the schema and the unknown key
PEncodedMaps(cls) ==
    UNION {{m \in [1..n -> (PExtKeys(cls) \cup {PUnknownKey}) \X {0, 7}] :
               \A i, j \in 1..n : i # j => m[i][1] # m[j][1]} : n \in 0..MaxPairs}

\* whether self.external2internal_dict[k] raises KeyError
in_schema(cls, e) == e \in PExtKeys(cls)

\* get_internal_items_from_external_items is a generator: the items before
\* the first key that is not in external2internal_dict are yielded
RECURSIVE yielded(_, _)
yielded(cls, items) ==
    IF items = <<>> \/ ~in_schema(cls, Head(items)[1]) THEN <<>>
    ELSE <<Head(items)>> \o yielded(cls, Tail(items))

\* CBORPickler.load_external_dict_to: what became of the object, and
\* whether the call returned
loaded_or_raised(b, o) ==
    [o2 |-> set_external_dict_to(yielded(o.cls, cbor_loads(b)), o),
     stage |-> IF \A i \in 1..b[1] : in_schema(o.cls, b[2 * i]) THEN "loaded"
               ELSE "KeyError"]

InitEncoded ==
    /\ StoreStart /\ FileStart /\ XInit
    /\ cblock = NoCodecBlock
    /\ pnode \in UNION {{[stage |-> "encoded", o |-> PFresh(cls), dumped |-> cbor_dumps(m),
                          o2 |-> PFresh(cls)] : m \in PEncodedMaps(cls)} :
                        cls \in PClasses}

\* pickler.load_external_dict_to(d, o2) with a fresh o2
LoadEncoded ==
    /\ pnode.stage = "encoded"
    /\ pnode' = [pnode EXCEPT !.stage = loaded_or_raised(pnode.dumped, pnode.o2).stage,
                              !.o2 = loaded_or_raised(pnode.dumped, pnode.o2).o2]
    /\ UNCHANGED <<svars, fvars, uvars, bvars, dvars, mvars, ovars, cblock, tvars, avars, rvars>>

NextEncoded == LoadEncoded

SpecEncoded == InitEncoded /\ [][NextEncoded]_vars

\* the value the encoding carries for the external key e, PAbsent if none
encoded_value(e) ==
    IF \E i \in 1..pnode.dumped[1] : pnode.dumped[2 * i] = e
    THEN pnode.dumped[2 * (CHOOSE i \in 1..pnode.dumped[1] : pnode.dumped[2 * i] = e) + 1]
    ELSE PAbsent

\* C40: every load of an encoding returns, whether or not the encoding
\* carries a key outside the schema; the loaded object has every schema
\* field of the encoding with its value, and a schema field the encoding
\* lacks reads as the class default
C40_UnknownFieldIgnored ==
    pnode.stage # "encoded" =>
        /\ pnode.stage = "loaded"
        /\ \A i \in 1..Len(PSchema(pnode.o2.cls)) :
               p_getattr(pnode.o2, PSchema(pnode.o2.cls)[i].k) =
                   IF encoded_value(PSchema(pnode.o2.cls)[i].ext) = PAbsent
                   THEN (IF PSchema(pnode.o2.cls)[i].dflt = PProperty
                         THEN p_getattr(PFresh(pnode.o2.cls), PSchema(pnode.o2.cls)[i].k)
                         ELSE PSchema(pnode.o2.cls)[i].dflt)
                   ELSE encoded_value(PSchema(pnode.o2.cls)[i].ext)

\* ---------------------------------------------------------------------
\* ops.py, forest.py, storage.py: entries are made and removed and the
\* forest is flushed over a DelayedStorage whose reference counts are kept.

\* the cap on the reference count of a block
MaxBlockRefs == 4

TheCountedForest == [TheForest EXCEPT !.st = bstore]

\* no block has more than MaxBlockRefs references
within_cap(d) == \A b \in DOMAIN d.st.refcnt : d.st.refcnt[b] <= MaxBlockRefs

CommitCounted(op, d) ==
    /\ within_cap(d)
    /\ entry' = d.entry
    /\ ino' = d.ino
    /\ tnode' = d.tnode
    /\ dns' = d.dns
    /\ blocks' = d.blocks
    /\ cname' = d.cname
    /\ dlast' = DDone(op, d)
    /\ bstore' = d.st
    /\ UNCHANGED <<svars, fvars, uvars, bvars, mvars, ovars, pvars, tvars, avars>>

\* Operations.rmdir once _lookup has found the directory: ENOTEMPTY if it
\* has children, else the leaf leaves the tree; n.deref() in either case
rmdir_looked_up(d, p) ==
    IF \E c \in Kids(p) : load(d, p).entry[c].there
    THEN DRaise(deref(load(d, p), p), "ENOTEMPTY")
    ELSE deref(changed(unlink(load(d, p), p), Front(p)), p)

\* Operations.rmdir(parent_inode, name) of a directory the parent has
ops_rmdir(d, p) == rmdir_looked_up(lookup(d, p), p)

\* Forest.create_file(dir_inode, name) of a name the directory has not
StoredCreateFile(p) ==
    /\ Reachable(Front(p))
    /\ ~ino[p].there
    /\ ~load(TheCountedForest, Front(p)).entry[p].there
    /\ CommitCounted("create_file", create_file(TheCountedForest, p))
    /\ user_refs' = [user_refs EXCEPT ![p] = 1]
    /\ want' = [want EXCEPT ![p] = [there |-> TRUE, is_dir |-> FALSE, foo |-> 0]]
    /\ UNCHANGED removed

\* Forest.create_dir(dir_inode, name) of a name the directory has not
StoredCreateDir(p) ==
    /\ Reachable(Front(p))
    /\ ~ino[p].there
    /\ ~load(TheCountedForest, Front(p)).entry[p].there
    /\ CommitCounted("create_dir", create_dir(TheCountedForest, p))
    /\ user_refs' = [user_refs EXCEPT ![p] = 1]
    /\ want' = [want EXCEPT ![p] = [there |-> TRUE, is_dir |-> TRUE, foo |-> 0]]
    /\ UNCHANGED removed

\* Forest.lookup(dir_inode, name) of a name the directory has, by a caller
\* that holds no reference on the inode yet
StoredLookup(p) ==
    /\ Reachable(Front(p))
    /\ user_refs[p] = 0
    /\ ino[p].there => ino[p].leaf_node = "linked"
    /\ load(TheCountedForest, Front(p)).entry[p].there
    /\ CommitCounted("lookup", lookup(TheCountedForest, p))
    /\ user_refs' = [user_refs EXCEPT ![p] = 1]
    /\ UNCHANGED <<want, removed>>

\* inode.deref() by the caller that holds the reference: the inode is
\* forgotten
StoredForget(p) ==
    /\ user_refs[p] = 1
    /\ CommitCounted("deref", deref(TheCountedForest, p))
    /\ user_refs' = [user_refs EXCEPT ![p] = 0]
    /\ UNCHANGED <<want, removed>>

\* Operations.rmdir(parent_inode, name) of a directory the parent has
StoredRmdir(p) ==
    /\ Reachable(Front(p))
    /\ ino[p].there => ino[p].leaf_node = "linked"
    /\ load(TheCountedForest, Front(p)).entry[p].there
    /\ load(TheCountedForest, Front(p)).entry[p].is_dir
    /\ CommitCounted("rmdir", ops_rmdir(TheCountedForest, p))
    /\ want' = IF DOk(ops_rmdir(TheCountedForest, p))
               THEN [want EXCEPT ![p] = NoWant] ELSE want
    /\ removed' = (removed \/ DOk(ops_rmdir(TheCountedForest, p)))
    /\ UNCHANGED user_refs

\* Forest.unlink(dir_inode, name) of a file the directory has
StoredUnlink(p) ==
    /\ Reachable(Front(p))
    /\ load(TheCountedForest, Front(p)).entry[p].there
    /\ ~load(TheCountedForest, Front(p)).entry[p].is_dir
    /\ CommitCounted("unlink", unlink(TheCountedForest, p))
    /\ want' = [want EXCEPT ![p] = NoWant]
    /\ removed' = TRUE
    /\ UNCHANGED user_refs

\* Forest.flush()
StoredFlush ==
    /\ CommitCounted("flush", flush(TheCountedForest))
    /\ UNCHANGED <<user_refs, want, removed>>

NextReclaim ==
    \/ \E p \in DPaths : StoredCreateFile(p)
    \/ \E p \in DPaths : StoredCreateDir(p)
    \/ \E p \in DPaths : StoredLookup(p)
    \/ \E p \in DPaths : StoredForget(p)
    \/ \E p \in DPaths : StoredRmdir(p)
    \/ \E p \in DPaths : StoredUnlink(p)
    \/ StoredFlush

SpecReclaim == Init /\ [][NextReclaim]_vars

\* the block ids the data of a block refers to
data_references(bid) == {e.block_id : e \in bid.entries} \ {NoBid}

\* the blocks written to the backend
backend_blocks == DOMAIN bstore.refcnt \ bstore.fresh

\* every inode but the root's is forgotten and every handle given back
all_forgotten ==
    /\ \A p \in DPaths : user_refs[p] = 0 /\ ~ino[p].there
    /\ dns = {}

\* C39: once an entry has been removed, every inode forgotten and the
\* forest flushed, every block left in the backend is the target of the
\* name `content` or is referenced by the data of another block of the
\* backend.
C39_StorageReclaimed ==
    (removed /\ all_forgotten /\ dlast.op = "flush" /\ dlast.ok /\ bstore.dirty = {}) =>
        \A b \in backend_blocks :
            \/ b = cname
            \/ \E c \in backend_blocks \ {b} : b \in data_references(c)

====
